---- MODULE Spec2Model ----
(***************************************************************************)
(* AirTouch 5 client: the device session (AirtouchAPI, api.ts), the device *)
(* state aggregator (Airtouch5Wrapper, airTouchWrapper.ts) and the event   *)
(* routing of the platform (AirtouchPlatform, platform.ts).                *)
(*                                                                         *)
(* Bytes are integers 0..255, buffers are sequences of bytes, strings are  *)
(* sequences of character codes.  Time is in seconds.                      *)
(***************************************************************************)
EXTENDS Integers, Sequences, FiniteSets, TLC

(***************************************************************************)
(* Bounds of the model.                                                    *)
(***************************************************************************)
MaxTime == 270
MaxBootTime == 20
MaxSockets == 4
MaxWrapperSockets == 2
MinCelsius == 5
MaxCelsius == 40
MaxRecords == 2
MaxCrcLen == 3

(***************************************************************************)
(* Program constants.                                                      *)
(***************************************************************************)
\* class MAGIC: the protocol's constants.  A JavaScript index [0] is the
\* index [1] of a sequence.
MAGIC ==
  [HEADER_BYTES |-> <<85, 85, 85, 170>>,
   ADDRESS_STANDARD_BYTES |-> <<128, 176>>,
   ADDRESS_EXTENDED_BYTES |-> <<144, 176>>,
   MSGTYPE_STANDARD |-> 192,
   SUBTYPE_ZONE_CTRL |-> 32,
   SUBTYPE_ZONE_STAT |-> 33,
   SUBTYPE_AC_CTRL |-> 34,
   SUBTYPE_AC_STAT |-> 35,
   EXT_SUBTYPE_AC_ABILITY |-> 17,
   EXT_SUBTYPE_AC_ERROR |-> 16,
   EXT_SUBTYPE_ZONE_NAME |-> 19,
   LENGTH_AC_ABILITY |-> 26,
   AC_POWER_STATES |-> [KEEP |-> 0, NEXT |-> 1, OFF |-> 2, ON |-> 3],
   AC_MODES |-> [AUTO |-> 0, HEAT |-> 1, DRY |-> 2, FAN |-> 3, COOL |-> 4,
                 KEEP |-> 5],
   AC_FAN_SPEEDS |-> [AUTO |-> 0, QUIET |-> 1, LOW |-> 2, MEDIUM |-> 3,
                      HIGH |-> 4, POWERFUL |-> 5, TURBO |-> 6, KEEP |-> 7],
   AC_TARGET_TYPES |-> [KEEP |-> 0, SET_VALUE |-> 1, DECREMENT |-> 2,
                        INCREMENT |-> 3],
   AC_UNIT_DEFAULT |-> 0,
   ZONE_POWER_STATES |-> [KEEP |-> 0, NEXT |-> 1, OFF |-> 2, ON |-> 3,
                          TURBO |-> 5],
   AC_TARGET_STATES |-> [OFF |-> 0, HEAT |-> 1, COOL |-> 2, AUTO |-> 3],
   ZONE_TARGET_TYPES |-> [KEEP |-> 0, DECREMENT |-> 2, INCREMENT |-> 3,
                          DAMPER |-> 4, TEMPERATURE |-> 5],
   ZONE_NUMBER_DEFAULT |-> 0]

EnvelopeLength == 10
LivenessTimeout == 120
CheckInterval == 10
ReconnectDelay == 10

(***************************************************************************)
(* JavaScript values.  NaN stands for both undefined and NaN: the value of *)
(* a Buffer read past the end and of arithmetic on it.                     *)
(***************************************************************************)
NaN == 0 - 1000000

IsNum(x) == x # NaN

\* buf[i] with a 0-based index; undefined past the end
At(buf, i) == IF IsNum(i) /\ i >= 0 /\ i < Len(buf) THEN buf[i + 1] ELSE NaN

\* Buffer.subarray(start, end): both ends are clamped to the buffer, a NaN
\* end counts as 0
Subarray(buf, start, end) ==
  LET Clamp(i) == IF i < 0 THEN 0 ELSE IF i > Len(buf) THEN Len(buf) ELSE i
      s == Clamp(start)
      e == IF IsNum(end) THEN Clamp(end) ELSE 0
  IN  IF e <= s THEN <<>> ELSE SubSeq(buf, s + 1, e)

\* (x & (1 << k)) >> k ; undefined & mask is 0
Bit(x, k) == IF IsNum(x) THEN (x \div (2 ^ k)) % 2 ELSE 0

\* x & (2^k - 1) ; undefined & mask is 0
LowBits(x, k) == IF IsNum(x) THEN x % (2 ^ k) ELSE 0

\* (x >> k) for a byte ; undefined gives 0
HighBits(x, k) == IF IsNum(x) THEN x \div (2 ^ k) ELSE 0

\* a + b in JavaScript numbers
Plus(a, b) == IF IsNum(a) /\ IsNum(b) THEN a + b ELSE NaN

RECURSIVE Xor(_, _)
Xor(a, b) ==
  IF a = 0 THEN b
  ELSE IF b = 0 THEN a
  ELSE (((a % 2) + (b % 2)) % 2) + (2 * Xor(a \div 2, b \div 2))

\* the inner loop of crc16: j more shifts of crc
RECURSIVE crc16Bits(_, _)
crc16Bits(crc, j) ==
  IF j = 0 THEN crc
  ELSE IF crc % 2 = 1 THEN crc16Bits(Xor(crc \div 2, 40961), j - 1)
  ELSE crc16Bits(crc \div 2, j - 1)

\* the outer loop of crc16 from byte i on
RECURSIVE crc16From(_, _, _)
crc16From(buffer, i, crc) ==
  IF i > Len(buffer) THEN crc
  ELSE LET next == crc16Bits(Xor(crc, buffer[i]), 8)
       IN  IF next >= 0 THEN crc16From(buffer, i + 1, next) ELSE next

\* variant: the register starts at 0
crc16_ZeroInit(buffer) == crc16From(buffer, 1, 0)

crc16(buffer) == crc16From(buffer, 1, 65535)


UInt16BE(n) == <<(n \div 256) % 256, n % 256>>

RECURSIVE Zeros(_)
Zeros(n) == IF n <= 0 THEN <<>> ELSE <<0>> \o Zeros(n - 1)


(***************************************************************************)
(* Message codec: decoding (api.ts).  Temperatures are kept in tenths of a *)
(* degree: the source divides the same number by 10.                       *)
(***************************************************************************)
\* the index of the first NUL of a byte string, or its length
RECURSIVE IndexOfNul(_, _)
IndexOfNul(bytes, i) ==
  IF i >= Len(bytes) THEN Len(bytes)
  ELSE IF bytes[i + 1] = 0 THEN i
  ELSE IndexOfNul(bytes, i + 1)

\* one 26-byte record of decode_ac_ability
AcAbilityOf(unit) ==
  LET ac_name_temp == Subarray(unit, 2, 18)
  IN  [ac_unit_number |-> At(unit, 0),
       ac_name |-> Subarray(ac_name_temp, 0, IndexOfNul(ac_name_temp, 0)),
       ac_start_zone |-> At(unit, 18),
       ac_zone_count |-> At(unit, 19),
       ac_support_cool_mode |-> Bit(At(unit, 20), 4),
       ac_support_fan_mode |-> Bit(At(unit, 20), 3),
       ac_support_dry_mode |-> Bit(At(unit, 20), 2),
       ac_support_heat_mode |-> Bit(At(unit, 20), 1),
       ac_support_auto_mode |-> Bit(At(unit, 20), 0),
       ac_support_fan_intelligent |-> Bit(At(unit, 21), 7),
       ac_support_fan_turbo |-> Bit(At(unit, 21), 6),
       ac_support_fan_powerful |-> Bit(At(unit, 21), 5),
       ac_support_fan_high |-> Bit(At(unit, 21), 4),
       ac_support_fan_medium |-> Bit(At(unit, 21), 3),
       ac_support_fan_low |-> Bit(At(unit, 21), 2),
       ac_support_fan_quiet |-> Bit(At(unit, 21), 1),
       ac_support_fan_auto |-> Bit(At(unit, 21), 0),
       ac_min_cool |-> At(unit, 22),
       ac_max_cool |-> At(unit, 23),
       ac_min_heat |-> At(unit, 24),
       ac_max_heat |-> At(unit, 25)]

\* the events of decode_ac_ability: one per started 26-byte record
RECURSIVE AcAbilityEvents(_, _)
AcAbilityEvents(data, i) ==
  IF i * MAGIC.LENGTH_AC_ABILITY >= Len(data) THEN <<>>
  ELSE <<[type |-> "ac_ability",
          ac_ability |-> AcAbilityOf(Subarray(data, i * MAGIC.LENGTH_AC_ABILITY,
                                     i * MAGIC.LENGTH_AC_ABILITY + MAGIC.LENGTH_AC_ABILITY))]>>
       \o AcAbilityEvents(data, i + 1)

\* one record of decode_ac_status
AcStatusOf(unit) ==
  [ac_unit_number |-> LowBits(At(unit, 0), 4),
   ac_power_state |-> HighBits(At(unit, 0), 4),
   ac_mode |-> HighBits(At(unit, 1), 4),
   ac_fan_speed |-> LowBits(At(unit, 1), 4),
   ac_target |-> Plus(At(unit, 2), 100),
   ac_temp |-> Plus(Plus(LowBits(At(unit, 4), 3) * 256, At(unit, 5)), 0 - 500),
   ac_turbo |-> Bit(At(unit, 3), 3),
   ac_bypass |-> Bit(At(unit, 3), 2),
   ac_spill |-> Bit(At(unit, 3), 1),
   ac_timer |-> Bit(At(unit, 3), 0),
   ac_error_code |-> Plus(HighBits(At(unit, 6), 0) * 256, At(unit, 7))]

\* the loop of decode_ac_status; record i is decoded from
\* data.subarray(i * 19, i * 10 + 10)
RECURSIVE AcStatusEvents(_, _, _)
AcStatusEvents(count_repeats, data, i) ==
  IF i >= count_repeats THEN <<>>
  ELSE <<[type |-> "ac_status",
          ac_status |-> AcStatusOf(Subarray(data, i * 19, i * 10 + 10))]>>
       \o AcStatusEvents(count_repeats, data, i + 1)

\* one record of decode_zones_status
ZoneStatusOf(group) ==
  [zone_number |-> LowBits(At(group, 0), 6),
   zone_power_state |-> HighBits(At(group, 0), 6),
   zone_control_type |-> Bit(At(group, 1), 7),
   zone_damper_position |-> LowBits(At(group, 1), 7),
   zone_target |-> Plus(At(group, 2), 100),
   zone_temp |-> Plus(Plus(HighBits(At(group, 4), 0) * 256, At(group, 5)), 0 - 500),
   zone_battery_low |-> Bit(At(group, 6), 0),
   zone_has_sensor |-> Bit(At(group, 3), 7),
   zone_has_spill |-> Bit(At(group, 6), 1)]

RECURSIVE ZoneStatusEvents(_, _, _)
ZoneStatusEvents(count_repeats, data, i) ==
  IF i >= count_repeats THEN <<>>
  ELSE <<[type |-> "zone_status",
          zone_status |-> ZoneStatusOf(Subarray(data, i * 8, i * 8 + 8))]>>
       \o ZoneStatusEvents(count_repeats, data, i + 1)

\* the events of decode_zone_names: [zone_number][name_length][name] records
RECURSIVE ZoneNameEvents(_, _)
ZoneNameEvents(data, counter) ==
  IF ~IsNum(counter) \/ counter >= Len(data) THEN <<>>
  ELSE LET zone_name_length == At(data, counter + 1)
           next == Plus(counter + 2, zone_name_length)
       IN  <<[type |-> "zone_name",
              zone_number |-> At(data, counter),
              zone_name |-> Subarray(data, counter + 2, next)]>>
           \o ZoneNameEvents(data, next)

(***************************************************************************)
(* What the socket data handler does with one chunk, before the events     *)
(* reach their listeners: the decoder that runs, the events it emits in    *)
(* order, and whether the decoder itself raises (readUInt16BE on a slice   *)
(* shorter than two bytes is a RangeError).                                *)
(***************************************************************************)
NoDecode == [decoder |-> "none", events |-> <<>>, raises |-> FALSE]

decode_extended_message(data) ==
  LET message_type == At(data, 11)
      payload == Subarray(data, 12, Len(data) - 2)
  IN  IF message_type = MAGIC.EXT_SUBTYPE_AC_ABILITY
        THEN [decoder |-> "decode_ac_ability",
              events |-> AcAbilityEvents(payload, 0), raises |-> FALSE]
      ELSE IF message_type = MAGIC.EXT_SUBTYPE_AC_ERROR THEN NoDecode
      ELSE IF message_type = MAGIC.EXT_SUBTYPE_ZONE_NAME
        THEN [decoder |-> "decode_zone_names",
              events |-> ZoneNameEvents(payload, 0), raises |-> FALSE]
      ELSE NoDecode

decode_standard_message(data) ==
  LET message_type == At(data, 10)
      lenField == Subarray(data, 14, 16)
      countField == Subarray(data, 16, 18)
      payload == Subarray(data, 18, Len(data) - 2)
  IN  IF Len(lenField) < 2 \/ Len(countField) < 2
        THEN [decoder |-> "none", events |-> <<>>, raises |-> TRUE]
      ELSE LET count_repeats == countField[1] * 256 + countField[2]
           IN  IF message_type = MAGIC.SUBTYPE_ZONE_STAT
                 THEN [decoder |-> "decode_zones_status",
                       events |-> ZoneStatusEvents(count_repeats, payload, 0),
                       raises |-> FALSE]
               ELSE IF message_type = MAGIC.SUBTYPE_AC_STAT
                 THEN [decoder |-> "decode_ac_status",
                       events |-> AcStatusEvents(count_repeats, payload, 0),
                       raises |-> FALSE]
               ELSE NoDecode

\* variant: the header comparison is skipped
DataDispatch_NoHeaderCheck(data) ==
  LET real_data == Subarray(data, EnvelopeLength, Len(data))
      address == At(real_data, 5)
  IN  IF address = MAGIC.ADDRESS_STANDARD_BYTES[1] THEN decode_standard_message(real_data)
      ELSE IF address = MAGIC.ADDRESS_EXTENDED_BYTES[1] THEN decode_extended_message(real_data)
      ELSE NoDecode

\* the body of the 'data' listener after the timestamp update
DataDispatch(data) ==
  LET real_data == Subarray(data, EnvelopeLength, Len(data))
      header == Subarray(real_data, 0, 4)
      address == At(real_data, 5)
  IN  IF header # MAGIC.HEADER_BYTES THEN NoDecode
      ELSE IF address = MAGIC.ADDRESS_STANDARD_BYTES[1] THEN decode_standard_message(real_data)
      ELSE IF address = MAGIC.ADDRESS_EXTENDED_BYTES[1] THEN decode_extended_message(real_data)
      ELSE NoDecode


(***************************************************************************)
(* Device state aggregator (Airtouch5Wrapper).  acs and zones are the      *)
(* JavaScript arrays: a function whose domain is the set of indices that   *)
(* hold a value, so that acs[n] === undefined is n \notin DOMAIN acs.      *)
(* An optional field is <<>> when undefined and <<v>> when set.  Every     *)
(* method maps an aggregator value [acs, zones, threw] to the next one;    *)
(* threw says that the method raised (a TypeError on undefined).           *)
(***************************************************************************)
Undefined == <<>>

Some(v) == <<v>>

createAc(acs, ac_number, ac_ability) ==
  [n \in DOMAIN acs \cup {ac_number} |->
     IF n = ac_number
       THEN [ac_number |-> ac_number, ac_ability |-> ac_ability,
             ac_status |-> Undefined, registered |-> FALSE]
       ELSE acs[n]]

createZone(zones, zone_number, ac_number) ==
  [z \in DOMAIN zones \cup {zone_number} |->
     IF z = zone_number
       THEN [zone_number |-> zone_number, ac_number |-> ac_number,
             \* 'Zone ' + zone_number, for a one-digit number
             zone_name |-> <<90, 111, 110, 101, 32, 48 + zone_number>>,
             zone_status |-> Undefined, registered |-> FALSE]
       ELSE zones[z]]

RECURSIVE initialiseZonesLoop(_, _, _, _)
initialiseZonesLoop(zones, ac_number, i, end) ==
  IF i >= end THEN zones
  ELSE LET created == IF i \notin DOMAIN zones
                        THEN createZone(zones, i, ac_number) ELSE zones
       IN  initialiseZonesLoop([created EXCEPT ![i].ac_number = ac_number],
                               ac_number, i + 1, end)

\* variant: the loop runs one zone past the range
initialiseZonesForAc_OnePast(zones, ac_number, ac_ability) ==
  LET start_zone == ac_ability.ac_start_zone
      count_zones == ac_ability.ac_zone_count
  IN  IF IsNum(start_zone) /\ IsNum(count_zones)
        THEN initialiseZonesLoop(zones, ac_number, start_zone, start_zone + count_zones + 1)
        ELSE zones

initialiseZonesForAc(zones, ac_number, ac_ability) ==
  LET start_zone == ac_ability.ac_start_zone
      count_zones == ac_ability.ac_zone_count
  IN  IF IsNum(start_zone) /\ IsNum(count_zones)
        THEN initialiseZonesLoop(zones, ac_number, start_zone, start_zone + count_zones)
        ELSE zones

\* variant: the ability of a known unit is refreshed in place
AddAcAbility_Refresh(st, ac_ability) ==
  LET ac_number == ac_ability.ac_unit_number
  IN  IF ac_number \notin DOMAIN st.acs
        THEN [acs |-> createAc(st.acs, ac_number, ac_ability),
              zones |-> initialiseZonesForAc(st.zones, ac_number, ac_ability),
              threw |-> FALSE]
        ELSE [st EXCEPT !.acs[ac_number].ac_ability = ac_ability, !.threw = FALSE]

\* variant: the latest ability replaces the record of a known unit
AddAcAbility_Overwrite(st, ac_ability) ==
  LET ac_number == ac_ability.ac_unit_number
  IN  [acs |-> createAc(st.acs, ac_number, ac_ability),
       zones |-> initialiseZonesForAc(st.zones, ac_number, ac_ability),
       threw |-> FALSE]

\* variant: the ability of a known unit maps its zone range again
AddAcAbility_Remap(st, ac_ability) ==
  LET ac_number == ac_ability.ac_unit_number
  IN  IF ac_number \notin DOMAIN st.acs
        THEN [acs |-> createAc(st.acs, ac_number, ac_ability),
              zones |-> initialiseZonesForAc(st.zones, ac_number, ac_ability),
              threw |-> FALSE]
        ELSE [acs |-> st.acs,
              zones |-> initialiseZonesForAc(st.zones, ac_number, ac_ability),
              threw |-> FALSE]

AddAcAbility(st, ac_ability) ==
  LET ac_number == ac_ability.ac_unit_number
  IN  IF ac_number \notin DOMAIN st.acs
        THEN [acs |-> createAc(st.acs, ac_number, ac_ability),
              zones |-> initialiseZonesForAc(st.zones, ac_number, ac_ability),
              threw |-> FALSE]
        ELSE [st EXCEPT !.threw = FALSE]

\* AirTouchZoneAccessory.updateStatus -> updateAll: the derived-state getters
\* read this.ac.ac_status!.ac_mode
ZoneAccessoryUpdateRaises(acs, ac_number) == acs[ac_number].ac_status = Undefined

AddUpdateZoneStatus(st, zone_status) ==
  LET zone_number == zone_status.zone_number
  IN  IF zone_number \notin DOMAIN st.zones
        \* this.zones[zone_number].zone_name on an undefined entry
        THEN [st EXCEPT !.threw = TRUE]
        ELSE LET withName == [zone_number |-> zone_status.zone_number,
                              zone_power_state |-> zone_status.zone_power_state,
                              zone_control_type |-> zone_status.zone_control_type,
                              zone_damper_position |-> zone_status.zone_damper_position,
                              zone_target |-> zone_status.zone_target,
                              zone_temp |-> zone_status.zone_temp,
                              zone_battery_low |-> zone_status.zone_battery_low,
                              zone_has_sensor |-> zone_status.zone_has_sensor,
                              zone_has_spill |-> zone_status.zone_has_spill,
                              zone_name |-> st.zones[zone_number].zone_name]
                 zones2 == [st.zones EXCEPT ![zone_number].zone_status = Some(withName)]
                 ac_number == st.zones[zone_number].ac_number
             IN  [acs |-> st.acs,
                  zones |-> zones2,
                  threw |-> st.zones[zone_number].registered
                            /\ ZoneAccessoryUpdateRaises(st.acs, ac_number)]

\* variant: the zone is registered whether or not it has a status
registerZone_NoStatusGuard(zones, zone_number) ==
  [zones EXCEPT ![zone_number].registered = TRUE]

\* registerZone: the accessory comes from the platform's cache or is created
\* with the zone's current name; the code looks at zone_status only
registerZone(zones, zone_number) ==
  IF zones[zone_number].zone_status = Undefined THEN zones
  ELSE [zones EXCEPT ![zone_number].registered = TRUE]

AddZoneName(st, in_zone_number, zone_name) ==
  LET zone_number == in_zone_number
  IN  IF zone_number \notin DOMAIN st.zones
        \* this.zones[zone_number].zone_name on an undefined entry
        THEN [st EXCEPT !.threw = TRUE]
        ELSE LET named == [st.zones EXCEPT ![zone_number].zone_name = zone_name]
             IN  [acs |-> st.acs,
                  zones |-> IF named[zone_number].registered = FALSE
                              THEN registerZone(named, zone_number) ELSE named,
                  threw |-> FALSE]

registerAc(acs, ac_number) ==
  IF acs[ac_number].ac_status = Undefined THEN acs
  ELSE [acs EXCEPT ![ac_number].registered = TRUE]

\* variant: a field that is 0 in the new status keeps its previous value
AddUpdateAcStatus_Merge(st, ac_status) ==
  LET ac_number == ac_status.ac_unit_number
  IN  IF ac_number \notin DOMAIN st.acs
        THEN [st EXCEPT !.threw = TRUE]
        ELSE LET previous == st.acs[ac_number].ac_status
                 merged == IF previous = Undefined THEN ac_status
                           ELSE [f \in DOMAIN ac_status |->
                                   IF ac_status[f] = 0 THEN previous[1][f]
                                   ELSE ac_status[f]]
                 stored == [st.acs EXCEPT ![ac_number].ac_status = Some(merged)]
             IN  [acs |-> IF stored[ac_number].registered = FALSE
                            THEN registerAc(stored, ac_number) ELSE stored,
                  zones |-> st.zones,
                  threw |-> FALSE]

AddUpdateAcStatus(st, ac_status) ==
  LET ac_number == ac_status.ac_unit_number
  IN  IF ac_number \notin DOMAIN st.acs
        \* this.acs[ac_number].ac_ability on an undefined entry
        THEN [st EXCEPT !.threw = TRUE]
        ELSE LET stored == [st.acs EXCEPT ![ac_number].ac_status = Some(ac_status)]
             IN  [acs |-> IF stored[ac_number].registered = FALSE
                            THEN registerAc(stored, ac_number) ELSE stored,
                  zones |-> st.zones,
                  threw |-> FALSE]

\* the platform's listener for one event of this controller
Deliver(st, ev) ==
  IF ev.type = "ac_ability" THEN AddAcAbility(st, ev.ac_ability)
  ELSE IF ev.type = "ac_status" THEN AddUpdateAcStatus(st, ev.ac_status)
  ELSE IF ev.type = "zone_status" THEN AddUpdateZoneStatus(st, ev.zone_status)
  ELSE AddZoneName(st, ev.zone_number, ev.zone_name)

\* emitter.emit is synchronous: the events of one decoder run reach the
\* aggregator in order, and the first listener that raises ends the run
RECURSIVE DeliverAll(_, _, _)
DeliverAll(st, evs, i) ==
  IF i > Len(evs) \/ st.threw THEN [st |-> st, delivered |-> i - 1]
  ELSE DeliverAll(Deliver(st, evs[i]), evs, i + 1)


(***************************************************************************)
(* Inbound traffic: what the controller can put on the wire.  A chunk is   *)
(* the 10-byte envelope followed by header, body and CRC16.                *)
(***************************************************************************)
Framed(body) ==
  Zeros(EnvelopeLength) \o MAGIC.HEADER_BYTES \o body \o UInt16BE(crc16(body))

InStandard(subtype, repeat_length, count_repeats, payload) ==
  Framed(<<176, MAGIC.ADDRESS_STANDARD_BYTES[1], 1, 192>> \o UInt16BE(8 + Len(payload))
         \o <<subtype, 0, 0, 0>> \o UInt16BE(repeat_length)
         \o UInt16BE(count_repeats) \o payload)

InExtended(subtype, payload) ==
  Framed(<<176, MAGIC.ADDRESS_EXTENDED_BYTES[1], 1, 31>> \o UInt16BE(2 + Len(payload))
         \o <<255, subtype>> \o payload)

AbilityRec(unit, name, start_zone, zone_count, modes, fans) ==
  <<unit, 24>> \o name \o Zeros(16 - Len(name))
  \o <<start_zone, zone_count, modes, fans, 16, 30, 16, 30>>

ZoneRec(power, zone, percent, target, sensor, temp) ==
  <<power * 64 + zone, percent, target, sensor * 128,
    temp \div 256, temp % 256, 0, 0>>

AcRec(power, unit, mode, fan, target, temp) ==
  <<power * 16 + unit, mode * 16 + fan, target, 0,
    temp \div 256, temp % 256, 0, 0>>

NameK == <<75>>

NameL == <<76>>

F_Ability == InExtended(MAGIC.EXT_SUBTYPE_AC_ABILITY, AbilityRec(0, NameL, 0, 2, 23, 29))

F_ZoneStatus ==
  InStandard(MAGIC.SUBTYPE_ZONE_STAT, 8, 2,
             ZoneRec(1, 0, 50, 120, 1, 730) \o ZoneRec(0, 1, 0, 110, 0, 710))

F_ZoneStatusNone == InStandard(MAGIC.SUBTYPE_ZONE_STAT, 8, 0, <<>>)

F_AcStatus == InStandard(MAGIC.SUBTYPE_AC_STAT, 8, 1, AcRec(1, 0, 4, 2, 120, 740))

F_BadHeader == Zeros(EnvelopeLength) \o <<85, 85, 85, 85>> \o Zeros(16)

\* a zone status head cut before the repeat count
F_ShortStandard == SubSeq(F_ZoneStatus, 1, EnvelopeLength + 16)

\* a zone status batch that declares two records and carries one
F_MissingRecord ==
  InStandard(MAGIC.SUBTYPE_ZONE_STAT, 8, 2, ZoneRec(1, 0, 50, 120, 1, 730))

\* an AC ability message whose CRC trailer is wrong: its last byte was
\* damaged on the way
F_BadCrc == [F_Ability EXCEPT ![Len(F_Ability)] = (@ + 1) % 256]

\* twelve bytes: the envelope and half a header
F_Runt == Zeros(EnvelopeLength) \o <<85, 85>>

\* an AC status message sent from an address that is neither 0x80 nor 0x90
F_UnknownAddress == [F_AcStatus EXCEPT ![EnvelopeLength + 6] = 160]

\* a standard message of a subtype the client does not decode (0x20)
F_UnknownStandard == InStandard(32, 4, 1, <<0, 0, 0, 0>>)

\* the same message cut before its repeat count
F_ShortUnknownStandard == SubSeq(F_UnknownStandard, 1, EnvelopeLength + 16)

\* unit 0 described again, with another name and another zone range
F_AbilityAgain == InExtended(MAGIC.EXT_SUBTYPE_AC_ABILITY, AbilityRec(0, NameK, 1, 1, 3, 1))

\* what the controller sends while the session starts up; among it the
\* names of zone 0 ("K") and zone 1 (empty), an AC error message, and an AC
\* ability message whose fourth header byte is wrong
SessionChunks ==
  {F_Ability, F_AbilityAgain, F_ZoneStatus, F_ZoneStatusNone, F_AcStatus,
   InExtended(MAGIC.EXT_SUBTYPE_ZONE_NAME, <<0, Len(NameK)>> \o NameK \o <<1, 0>>),
   InExtended(MAGIC.EXT_SUBTYPE_AC_ERROR, <<0, 0>>),
   F_BadHeader, F_ShortStandard, F_MissingRecord, F_BadCrc,
   [F_Ability EXCEPT ![EnvelopeLength + 4] = 85],
   F_Runt, F_UnknownAddress, F_UnknownStandard, F_ShortUnknownStandard}

\* the chunks with a valid header whose address byte or subtype byte is
\* none of those the dispatchers act on
UnknownKindChunks ==
  LET IsUnknownKind(chunk) ==
        LET real_data == Subarray(chunk, EnvelopeLength, Len(chunk))
            address == At(real_data, 5)
        IN  /\ Subarray(real_data, 0, 4) = MAGIC.HEADER_BYTES
            /\ \/ address \notin {MAGIC.ADDRESS_STANDARD_BYTES[1], MAGIC.ADDRESS_EXTENDED_BYTES[1]}
               \/ /\ address = MAGIC.ADDRESS_STANDARD_BYTES[1]
                  /\ At(real_data, 10) \notin {MAGIC.SUBTYPE_ZONE_STAT,
                                               MAGIC.SUBTYPE_AC_STAT}
               \/ /\ address = MAGIC.ADDRESS_EXTENDED_BYTES[1]
                  /\ At(real_data, 11) \notin {MAGIC.EXT_SUBTYPE_AC_ABILITY,
                                               MAGIC.EXT_SUBTYPE_ZONE_NAME}
  IN  {chunk \in SessionChunks : IsUnknownKind(chunk)}

\* the chunks the header comparison of the 'data' listener rejects
BadHeaderChunks ==
  {chunk \in SessionChunks :
     Subarray(Subarray(chunk, EnvelopeLength, Len(chunk)), 0, 4) # MAGIC.HEADER_BYTES}

\* the chunks whose trailer is not the CRC16 of what lies between header
\* and trailer, as send() lays a message out
BadCrcChunks ==
  LET CrcMatches(chunk) ==
        LET real_data == Subarray(chunk, EnvelopeLength, Len(chunk))
            body == Subarray(real_data, 4, Len(real_data) - 2)
            trailer == Subarray(real_data, Len(real_data) - 2, Len(real_data))
        IN  trailer = UInt16BE(crc16(body))
  IN  {chunk \in SessionChunks : ~CrcMatches(chunk)}

\* what the controller sends over the long run of the liveness check
LivenessChunks == {F_Ability, F_BadHeader, F_UnknownAddress}

\* the data listener's dispatch of every chunk of the model, computed once
Dispatched == [chunk \in SessionChunks \cup LivenessChunks |-> DataDispatch(chunk)]

(***************************************************************************)
(* State.                                                                  *)
(***************************************************************************)
VARIABLES
  now,              \* Date.now(), in seconds
  lastDataTime,     \* AirtouchAPI.lastDataTime
  socks,            \* every net.Socket connect() created, in order; the last is this.device
  timers,           \* pending setTimeout callbacks of the error listeners
  intervals,        \* number of setInterval(checkLastDateReceived) registered
  ticksDue,         \* interval callbacks that still have to run at this instant
  got_ac_ability,   \* AirtouchAPI.got_ac_ability
  got_zone_status,  \* AirtouchAPI.got_zone_status
  acs,              \* Airtouch5Wrapper.acs
  zones,            \* Airtouch5Wrapper.zones
  step,             \* what the last handler run did
  livenessLog,      \* history: the times at which checkLastDateReceived signalled
  abilitySeen,      \* history: decode_ac_ability ran since the last connect()
  airtouch_devices  \* AirtouchPlatform.airtouch_devices: the wrappers discovery created

vars == <<now, lastDataTime, socks, timers, intervals, ticksDue, got_ac_ability,
          got_zone_status, acs, zones, step, livenessLog, abilitySeen,
          airtouch_devices>>

sessionVars == <<now, lastDataTime, socks, timers, intervals, ticksDue,
                 got_ac_ability, got_zone_status, livenessLog, abilitySeen,
                 airtouch_devices>>

Idle == [op |-> "none", sock |-> 0, decoder |-> "none", emitted |-> 0,
         writes |-> <<>>, threw |-> FALSE, signals |-> 0, destroys |-> 0,
         stale |-> FALSE, input |-> <<>>, known |-> FALSE,
         result |-> <<>>]

EmptyArray == [n \in {} |-> 0]

\* the state after new Airtouch5Wrapper(...): the session is constructed,
\* connect() has run once, and both collections are empty
Init ==
  /\ now = 0
  /\ lastDataTime = 0
  /\ socks = <<"opening">>
  /\ timers = {}
  /\ intervals = 1
  /\ ticksDue = 0
  /\ got_ac_ability = FALSE
  /\ got_zone_status = FALSE
  /\ acs = EmptyArray
  /\ zones = EmptyArray
  /\ step = Idle
  /\ livenessLog = <<>>
  /\ abilitySeen = FALSE
  /\ airtouch_devices = <<>>

device == Len(socks)

\* variant: the socket is left as it is
DestroyDevice_Skipped(ss) == ss

\* socket.destroy() on this.device
DestroyDevice(ss) == [ss EXCEPT ![Len(ss)] = "destroyed"]

\* send(): device.write; a destroyed socket drops the bytes
Write(request) == <<[sock |-> device, request |-> request]>>

GET_AC_ABILITY == Write("GET_AC_ABILITY")

GET_AC_STATUS(have_ability) == IF have_ability THEN Write("GET_AC_STATUS") ELSE <<>>

GET_ZONE_STATUS == Write("GET_ZONE_STATUS")

GET_ZONE_NAMES(have_zone_status) ==
  IF have_zone_status THEN Write("GET_ZONE_NAMES") ELSE <<>>

\* variant: the two status requests leave in the other order
AbilityTail_Swapped == [got_ac_ability |-> TRUE,
                        writes |-> GET_ZONE_STATUS \o GET_AC_STATUS(TRUE)]

\* what decode_ac_ability does after its loop
AbilityTail == [got_ac_ability |-> TRUE,
                writes |-> GET_AC_STATUS(TRUE) \o GET_ZONE_STATUS]

\* variant: the names are requested after every zone status batch
ZonesTail_EveryBatch(have_zone_status) ==
  [got_zone_status |-> TRUE, writes |-> GET_ZONE_NAMES(TRUE)]

\* what decode_zones_status does after its loop
ZonesTail(have_zone_status) ==
  IF have_zone_status = FALSE
    THEN [got_zone_status |-> TRUE, writes |-> GET_ZONE_NAMES(TRUE)]
    ELSE [got_zone_status |-> have_zone_status, writes |-> <<>>]

\* variant: capabilities are requested only while none are known
ConnectedWrites_UntilKnown == IF got_ac_ability THEN <<>> ELSE GET_AC_ABILITY

\* the writes of the connect callback
ConnectedWrites == GET_AC_ABILITY


(***************************************************************************)
(* Device session (AirtouchAPI): the listeners connect() installs, the     *)
(* liveness check and the backoff timer.  Each action is one callback run  *)
(* to completion, the listeners of the events it emits included.           *)
(***************************************************************************)
\* connect(): a new socket becomes this.device, the liveness clock restarts
\* and one more interval is registered
connect(ss) == Append(ss, "opening")

\* variant: connect() leaves the liveness clock alone
connectLastDataTime_Kept(t) == lastDataTime

\* this.lastDataTime = Date.now() in connect()
connectLastDataTime(t) == t

\* the 'attempt_reconnect' listener: onAttemptReconnect finds the wrapper
\* of this controller and calls AttemptReconnect -> api.connect()
AttemptReconnect(ss) == connect(ss)

\* variant: a socket that is still connecting counts as not connected
ShouldReconnect_NotOpen(ss) == ss[Len(ss)] # "open"

\* the guard of the backoff timer; readyState is a non-empty string for
\* every socket, so !readyState is false
ShouldReconnect(ss) == ss[Len(ss)] = "destroyed"

\* the connect callback of socket s
Connected(s) ==
  /\ socks[s] = "opening"
  /\ socks' = [socks EXCEPT ![s] = "open"]
  /\ step' = [Idle EXCEPT !.op = "connected", !.sock = s, !.writes = ConnectedWrites]
  /\ UNCHANGED <<now, lastDataTime, timers, intervals, ticksDue, got_ac_ability,
                 got_zone_status, acs, zones, livenessLog, abilitySeen,
                 airtouch_devices>>

\* variant: the timestamp is taken only once a decoder was selected
DataTimestamp_AfterValidation(chunk, last, t) ==
  IF Dispatched[chunk].decoder = "none" THEN last ELSE t

\* this.lastDataTime = Date.now(), the first statement of the 'data' listener
DataTimestamp(chunk, last, t) == t

\* the 'data' listener of socket s
Data(s, chunk) ==
  /\ socks[s] = "open"
  /\ lastDataTime' = DataTimestamp(chunk, lastDataTime, now)
  /\ LET d == Dispatched[chunk]
         run == DeliverAll([acs |-> acs, zones |-> zones, threw |-> FALSE], d.events, 1)
         completed == ~d.raises /\ ~run.st.threw
         abilityDone == d.decoder = "decode_ac_ability" /\ completed
         zonesDone == d.decoder = "decode_zones_status" /\ completed
     IN  /\ acs' = run.st.acs
         /\ zones' = run.st.zones
         /\ got_ac_ability' = IF abilityDone THEN AbilityTail.got_ac_ability
                              ELSE got_ac_ability
         /\ got_zone_status' = IF zonesDone THEN ZonesTail(got_zone_status).got_zone_status
                               ELSE got_zone_status
         /\ abilitySeen' = (abilitySeen \/ d.decoder = "decode_ac_ability")
         /\ step' = [Idle EXCEPT !.op = "data", !.sock = s, !.decoder = d.decoder,
                                 !.input = chunk,
                                 !.emitted = run.delivered,
                                 !.writes = IF abilityDone THEN AbilityTail.writes
                                            ELSE IF zonesDone
                                              THEN ZonesTail(got_zone_status).writes
                                            ELSE <<>>,
                                 !.threw = ~completed]
  /\ UNCHANGED <<now, socks, timers, intervals, ticksDue, livenessLog,
                 airtouch_devices>>

\* the 'error' listener of socket s; the socket that reports an error is
\* itself torn down by the runtime
SocketError(s) ==
  /\ socks[s] \in {"opening", "open"}
  /\ socks' = DestroyDevice([socks EXCEPT ![s] = "destroyed"])
  /\ timers' = timers \cup {[due |-> now + ReconnectDelay, sock |-> s,
                             connects |-> Len(socks)]}
  /\ step' = [Idle EXCEPT !.op = "error", !.sock = s, !.destroys = 1]
  /\ UNCHANGED <<now, lastDataTime, intervals, ticksDue, got_ac_ability,
                 got_zone_status, acs, zones, livenessLog, abilitySeen,
                 airtouch_devices>>

\* the 'close' listener of socket s: the peer closed, nothing but a log line
SocketClosed(s) ==
  /\ socks[s] = "open"
  /\ socks' = [socks EXCEPT ![s] = "destroyed"]
  /\ step' = [Idle EXCEPT !.op = "close", !.sock = s]
  /\ UNCHANGED <<now, lastDataTime, timers, intervals, ticksDue, got_ac_ability,
                 got_zone_status, acs, zones, livenessLog, abilitySeen,
                 airtouch_devices>>

\* the setTimeout callback armed by an error listener
BackoffFires(t) ==
  /\ t \in timers
  /\ t.due <= now
  /\ timers' = timers \ {t}
  /\ IF ShouldReconnect(socks)
       THEN /\ Len(socks) < MaxSockets
            /\ socks' = AttemptReconnect(socks)
            /\ lastDataTime' = connectLastDataTime(now)
            /\ intervals' = intervals + 1
            /\ abilitySeen' = FALSE
            /\ step' = [Idle EXCEPT !.op = "backoff", !.sock = t.sock, !.signals = 1,
                                    !.stale = (Len(socks) > t.connects)]
       ELSE /\ step' = [Idle EXCEPT !.op = "backoff", !.sock = t.sock,
                                    !.stale = (Len(socks) > t.connects)]
            /\ UNCHANGED <<socks, lastDataTime, intervals, abilitySeen>>
  /\ UNCHANGED <<now, ticksDue, got_ac_ability, got_zone_status, acs, zones,
                 livenessLog,
                 airtouch_devices>>

(***************************************************************************)
(* Message codec: encoding.  A control unit is a record of all its fields; *)
(* a field the caller left out is NaN (undefined).  Temperatures handed to *)
(* the command methods are whole degrees Celsius: both accessories         *)
(* register their setpoint characteristics with a step of 1.               *)
(***************************************************************************)
\* val === undefined ? nullVal : val
isNull(val, nullVal) == IF val = NaN THEN nullVal ELSE val

\* a | b on non-negative integers; undefined counts as 0
RECURSIVE Or(_, _)
Or(a, b) ==
  IF ~IsNum(a) THEN Or(0, b)
  ELSE IF ~IsNum(b) THEN a
  ELSE IF a = 0 THEN b
  ELSE IF b = 0 THEN a
  ELSE (IF (a % 2) + (b % 2) > 0 THEN 1 ELSE 0) + (2 * Or(a \div 2, b \div 2))

\* x << k
ShiftLeft(x, k) == IF IsNum(x) THEN x * (2 ^ k) ELSE 0


\* Buffer.from(array)
BufferFrom(array) ==
  [i \in 1..Len(array) |-> IF IsNum(array[i]) THEN array[i] % 256 ELSE 0]

\* an AcControlUnit with no field set
AcControlUnit ==
  [ac_unit_number |-> NaN, ac_power_state |-> NaN, ac_fan_speed |-> NaN,
   ac_mode |-> NaN, ac_target_keep |-> NaN, ac_target_value |-> NaN]

\* a ZoneControlUnit with no field set
ZoneControlUnit ==
  [zone_number |-> NaN, zone_power_state |-> NaN, zone_target_type |-> NaN,
   zone_target |-> NaN]

encode_ac_control(unit) ==
  LET byte1 == Or(isNull(unit.ac_unit_number, MAGIC.AC_UNIT_DEFAULT),
                  ShiftLeft(isNull(unit.ac_power_state, MAGIC.AC_POWER_STATES.KEEP), 4))
      byte2 == Or(isNull(unit.ac_fan_speed, MAGIC.AC_FAN_SPEEDS.KEEP),
                  ShiftLeft(isNull(unit.ac_mode, MAGIC.AC_MODES.KEEP), 4))
      byte3 == ShiftLeft(isNull(unit.ac_target_keep, MAGIC.AC_TARGET_TYPES.KEEP), 4)
      \* MAGIC.AC_TARGET_DEFAULT: MAGIC has no member of this name, the
      \* default is undefined
      byte4 == isNull(unit.ac_target_value, NaN)
  IN  BufferFrom(<<byte1, byte2, byte3, byte4>>)

encode_zone_control(zone) ==
  LET byte1 == isNull(zone.zone_number, MAGIC.ZONE_NUMBER_DEFAULT)
      byte2 == Or(isNull(zone.zone_power_state, MAGIC.ZONE_POWER_STATES.KEEP),
                  ShiftLeft(isNull(zone.zone_target_type, MAGIC.ZONE_TARGET_TYPES.KEEP), 5))
      \* zone.zone_target || 0
      byte3 == IF IsNum(zone.zone_target) THEN zone.zone_target ELSE 0
      byte4 == 0
  IN  BufferFrom(<<byte1, byte2, byte3, byte4>>)

\* variant: the length field counts the repeat data only
assemble_standard_message_DataLength(type, data) ==
  MAGIC.ADDRESS_STANDARD_BYTES \o <<1, MAGIC.MSGTYPE_STANDARD>> \o UInt16BE(Len(data))
  \o BufferFrom(<<type, 0, 0, 0>> \o data)

assemble_standard_message(type, data) ==
  LET startbuf == MAGIC.ADDRESS_STANDARD_BYTES \o <<1, MAGIC.MSGTYPE_STANDARD>>
      databuf == BufferFrom(<<type, 0, 0, 0>> \o data)
      datalen == UInt16BE(Len(databuf))
  IN  startbuf \o datalen \o databuf

\* send(): the bytes handed to device.write
send(data) == MAGIC.HEADER_BYTES \o data \o UInt16BE(crc16(data))

\* the tail every command method shares: repeat header, assemble, send
SendControl(subtype, data) ==
  send(assemble_standard_message(subtype, BufferFrom(<<0, 4, 0, 1>> \o data)))

acSetActive(unit_number, active) ==
  SendControl(MAGIC.SUBTYPE_AC_CTRL, encode_ac_control(
    [AcControlUnit EXCEPT !.ac_unit_number = unit_number,
                          !.ac_power_state = IF active THEN MAGIC.AC_POWER_STATES.ON
                                             ELSE MAGIC.AC_POWER_STATES.OFF]))

acSetTargetTemperature(unit_number, value) ==
  SendControl(MAGIC.SUBTYPE_AC_CTRL, encode_ac_control(
    [AcControlUnit EXCEPT !.ac_unit_number = unit_number,
                          !.ac_target_keep = MAGIC.AC_TARGET_TYPES.SET_VALUE,
                          !.ac_target_value = (value * 10) - 100]))

\* state is one of MAGIC.AC_TARGET_STATES (OFF 0, HEAT 1, COOL 2, AUTO 3);
\* any other state sends nothing
acSetTargetHeatingCoolingState(unit_number, state) ==
  LET off == [AcControlUnit EXCEPT !.ac_unit_number = unit_number,
                                   !.ac_power_state = MAGIC.AC_POWER_STATES.OFF]
      on(mode) == [AcControlUnit EXCEPT !.ac_unit_number = unit_number,
                                        !.ac_power_state = MAGIC.AC_POWER_STATES.ON,
                                        !.ac_mode = mode]
  IN  CASE state = 0 -> SendControl(MAGIC.SUBTYPE_AC_CTRL, encode_ac_control(off))
        [] state = 1 -> SendControl(MAGIC.SUBTYPE_AC_CTRL, encode_ac_control(on(MAGIC.AC_MODES.HEAT)))
        [] state = 2 -> SendControl(MAGIC.SUBTYPE_AC_CTRL, encode_ac_control(on(MAGIC.AC_MODES.COOL)))
        [] state = 3 -> SendControl(MAGIC.SUBTYPE_AC_CTRL, encode_ac_control(on(MAGIC.AC_MODES.AUTO)))
        [] OTHER -> <<>>

acSetFanSpeed(unit_number, speed) ==
  SendControl(MAGIC.SUBTYPE_AC_CTRL, encode_ac_control(
    [AcControlUnit EXCEPT !.ac_unit_number = unit_number,
                          !.ac_fan_speed = speed]))

zoneSetActive(zone_number, active) ==
  SendControl(MAGIC.SUBTYPE_ZONE_CTRL, encode_zone_control(
    [ZoneControlUnit EXCEPT !.zone_number = zone_number,
                            !.zone_power_state = IF active THEN MAGIC.ZONE_POWER_STATES.ON
                                                 ELSE MAGIC.ZONE_POWER_STATES.OFF]))

zoneSetPercentage(zone_number, value) ==
  SendControl(MAGIC.SUBTYPE_ZONE_CTRL, encode_zone_control(
    [ZoneControlUnit EXCEPT !.zone_number = zone_number,
                            !.zone_power_state = MAGIC.ZONE_POWER_STATES.ON,
                            !.zone_target_type = MAGIC.ZONE_TARGET_TYPES.DAMPER,
                            !.zone_target = value]))

zoneSetTargetTemperature(zone_number, temp) ==
  SendControl(MAGIC.SUBTYPE_ZONE_CTRL, encode_zone_control(
    [ZoneControlUnit EXCEPT !.zone_number = zone_number,
                            !.zone_power_state = MAGIC.ZONE_POWER_STATES.ON,
                            !.zone_target_type = MAGIC.ZONE_TARGET_TYPES.TEMPERATURE,
                            !.zone_target = (temp * 10) - 100]))


\* the calls the accessories make on the session; a boolean argument is 1
\* or 0
Commands ==
  {[method |-> "acSetActive", number |-> 0, value |-> 0],
   [method |-> "acSetTargetHeatingCoolingState", number |-> 0, value |-> 1],
   [method |-> "acSetTargetHeatingCoolingState", number |-> 0, value |-> 9],
   [method |-> "acSetFanSpeed", number |-> 0, value |-> 2],
   [method |-> "acSetTargetTemperature", number |-> 0, value |-> 22],
   [method |-> "zoneSetActive", number |-> 1, value |-> 1],
   [method |-> "zoneSetPercentage", number |-> 1, value |-> 50],
   [method |-> "zoneSetTargetTemperature", number |-> 1, value |-> 21]}

\* the message subtype a command method hands to assemble_standard_message
CommandSubtype(cmd) ==
  IF cmd.method \in {"zoneSetActive", "zoneSetPercentage", "zoneSetTargetTemperature"}
    THEN "SUBTYPE_ZONE_CTRL" ELSE "SUBTYPE_AC_CTRL"

\* variant: a mode change is sent as a power command followed by a mode
\* command
CommandWrites_PowerThenMode(cmd) ==
  IF cmd.method = "acSetTargetHeatingCoolingState"
    THEN IF \A k \in DOMAIN MAGIC.AC_TARGET_STATES :
                 cmd.value # MAGIC.AC_TARGET_STATES[k]
           THEN <<>>
         ELSE Write(CommandSubtype(cmd)) \o Write(CommandSubtype(cmd))
    ELSE Write(CommandSubtype(cmd))

\* what a command method writes: one message, or nothing for a target
\* state that is none of OFF, HEAT, COOL, AUTO
CommandWrites(cmd) ==
  IF /\ cmd.method = "acSetTargetHeatingCoolingState"
     /\ \A k \in DOMAIN MAGIC.AC_TARGET_STATES :
          cmd.value # MAGIC.AC_TARGET_STATES[k]
    THEN <<>>
    ELSE Write(CommandSubtype(cmd))

\* the calls checked byte by byte: every method, setpoints from MinCelsius
\* to MaxCelsius
CodecCommands ==
  [method : {"acSetActive"}, number : 0..3, value : {0, 1}]
  \cup [method : {"acSetTargetHeatingCoolingState"}, number : {0, 1},
        value : {0, 1, 2, 3, 9}]
  \cup [method : {"acSetFanSpeed"}, number : {0, 1}, value : 1..4]
  \cup [method : {"acSetTargetTemperature", "zoneSetTargetTemperature"},
        number : {0, 1}, value : MinCelsius..MaxCelsius]
  \cup [method : {"zoneSetActive"}, number : 0..3, value : {0, 1}]
  \cup [method : {"zoneSetPercentage"}, number : {0, 1}, value : {0, 5, 50, 100}]

\* every command paired with the bytes its method hands to device.write,
\* <<>> when the method returns without sending; computed once
SentTable ==
  LET Message(cmd) ==
        CASE cmd.method = "acSetActive" -> acSetActive(cmd.number, cmd.value = 1)
          [] cmd.method = "acSetTargetTemperature" ->
               acSetTargetTemperature(cmd.number, cmd.value)
          [] cmd.method = "acSetTargetHeatingCoolingState" ->
               acSetTargetHeatingCoolingState(cmd.number, cmd.value)
          [] cmd.method = "acSetFanSpeed" -> acSetFanSpeed(cmd.number, cmd.value)
          [] cmd.method = "zoneSetActive" -> zoneSetActive(cmd.number, cmd.value = 1)
          [] cmd.method = "zoneSetPercentage" ->
               zoneSetPercentage(cmd.number, cmd.value)
          [] cmd.method = "zoneSetTargetTemperature" ->
               zoneSetTargetTemperature(cmd.number, cmd.value)
  IN  {<<cmd, Message(cmd)>> : cmd \in Commands \cup CodecCommands}

\* one call of acSetActive .. zoneSetTargetTemperature
Command(cmd) ==
  /\ step' = [Idle EXCEPT !.op = "command", !.input = cmd,
                          !.writes = CommandWrites(cmd),
                          !.result = (CHOOSE pair \in SentTable : pair[1] = cmd)[2]]
  /\ UNCHANGED <<now, lastDataTime, socks, timers, intervals, ticksDue,
                 got_ac_ability, got_zone_status, acs, zones, livenessLog,
                 abilitySeen, airtouch_devices>>

\* one run of checkLastDateReceived
checkLastDateReceived ==
  /\ ticksDue > 0
  /\ ticksDue' = ticksDue - 1
  /\ IF (now - lastDataTime) > LivenessTimeout
       THEN /\ Len(socks) < MaxSockets
            /\ socks' = AttemptReconnect(DestroyDevice(socks))
            /\ lastDataTime' = connectLastDataTime(now)
            /\ intervals' = intervals + 1
            /\ abilitySeen' = FALSE
            /\ livenessLog' = Append(livenessLog, now)
            /\ step' = [Idle EXCEPT !.op = "check", !.signals = 1, !.destroys = 1]
       ELSE /\ step' = [Idle EXCEPT !.op = "check"]
            /\ UNCHANGED <<socks, lastDataTime, intervals, abilitySeen, livenessLog>>
  /\ UNCHANGED <<now, timers, got_ac_ability, got_zone_status, acs, zones,
                 airtouch_devices>>

\* time passes to the next instant at which the interval callbacks run; a
\* timer that is due runs before the clock moves on
Advance(horizon) ==
  /\ ticksDue = 0
  /\ \A t \in timers : t.due > now
  /\ now + CheckInterval <= horizon
  /\ now' = now + CheckInterval
  /\ ticksDue' = intervals
  /\ step' = Idle
  /\ UNCHANGED <<lastDataTime, socks, timers, intervals, got_ac_ability,
                 got_zone_status, acs, zones, livenessLog, abilitySeen,
                 airtouch_devices>>

Next ==
  \/ \E s \in 1..Len(socks) : Connected(s)
  \/ \E s \in 1..Len(socks) : \E chunk \in SessionChunks : Data(s, chunk)
  \/ \E s \in 1..Len(socks) : SocketError(s)
  \/ \E s \in 1..Len(socks) : SocketClosed(s)
  \/ \E t \in timers : BackoffFires(t)
  \/ checkLastDateReceived
  \/ \E cmd \in Commands : Command(cmd)
  \/ Advance(MaxBootTime)

Spec == Init /\ [][Next]_vars

\* the same session watched for long enough to fall silent twice
NextLiveness ==
  \/ \E s \in 1..Len(socks) : Connected(s)
  \/ \E s \in 1..Len(socks) : \E chunk \in LivenessChunks : Data(s, chunk)
  \/ \E s \in 1..Len(socks) : SocketError(s)
  \/ \E s \in 1..Len(socks) : SocketClosed(s)
  \/ \E t \in timers : BackoffFires(t)
  \/ checkLastDateReceived
  \/ Advance(MaxTime)

SpecLiveness == Init /\ [][NextLiveness]_vars

(***************************************************************************)
(* The aggregator on its own: the platform hands it decoded events in any  *)
(* order.                                                                  *)
(***************************************************************************)
AbilityInputs ==
  {AcAbilityOf(AbilityRec(0, NameL, 0, 2, 23, 29)),
   AcAbilityOf(AbilityRec(0, NameK, 1, 1, 3, 1)),
   AcAbilityOf(AbilityRec(1, NameK, 1, 1, 23, 29)),
   AcAbilityOf(AbilityRec(1, NameL, 2, 0, 17, 1))}

ZoneStatusInputs ==
  {ZoneStatusOf(ZoneRec(1, 0, 50, 120, 1, 730)),
   ZoneStatusOf(ZoneRec(1, 0, 0, 130, 0, 700)),
   ZoneStatusOf(ZoneRec(0, 1, 0, 110, 0, 710)),
   ZoneStatusOf(ZoneRec(1, 2, 30, 110, 1, 720))}

AcStatusInputs ==
  {AcStatusOf(AcRec(1, 0, 4, 2, 120, 740)),
   AcStatusOf(AcRec(0, 0, 0, 1, 110, 700)),
   AcStatusOf(AcRec(1, 1, 1, 3, 130, 720)),
   AcStatusOf(AcRec(1, 2, 0, 0, 120, 730))}

Aggregator == [acs |-> acs, zones |-> zones, threw |-> FALSE]

\* one call of a wrapper method; step records the argument and whether the
\* unit or zone it names was known before the call
Applied(op, input, known, st) ==
  /\ acs' = st.acs
  /\ zones' = st.zones
  /\ step' = [Idle EXCEPT !.op = op, !.threw = st.threw, !.input = input,
                          !.known = known]
  /\ UNCHANGED sessionVars

FeedAbility(ac_ability) ==
  Applied("AddAcAbility", ac_ability, ac_ability.ac_unit_number \in DOMAIN acs,
          AddAcAbility(Aggregator, ac_ability))

FeedZoneStatus(zone_status) ==
  Applied("AddUpdateZoneStatus", zone_status, zone_status.zone_number \in DOMAIN zones,
          AddUpdateZoneStatus(Aggregator, zone_status))

FeedAcStatus(ac_status) ==
  Applied("AddUpdateAcStatus", ac_status, ac_status.ac_unit_number \in DOMAIN acs,
          AddUpdateAcStatus(Aggregator, ac_status))

FeedZoneName(zone_number, zone_name) ==
  Applied("AddZoneName", [zone_number |-> zone_number, zone_name |-> zone_name],
          zone_number \in DOMAIN zones,
          AddZoneName(Aggregator, zone_number, zone_name))

NextAgg ==
  \/ \E ac_ability \in AbilityInputs : FeedAbility(ac_ability)
  \/ \E zone_status \in ZoneStatusInputs : FeedZoneStatus(zone_status)
  \/ \E ac_status \in AcStatusInputs : FeedAcStatus(ac_status)
  \/ \E zone_number \in {0, 1, 2}, zone_name \in {<<>>, NameK} :
       FeedZoneName(zone_number, zone_name)

SpecAgg == Init /\ [][NextAgg]_vars

(***************************************************************************)
(* The codec on its own: command methods, decoders and the checksum        *)
(* applied to inputs drawn from bounded sets.                              *)
(***************************************************************************)
\* the repeat data of a status message with up to MaxRecords records, each
\* an 8-byte status record as the controller sends it; the third record
\* has bits set above the low three of byte 4
StatusPayloads ==
  LET StatusRecords ==
        {AcRec(1, 0, 4, 2, 120, 740), AcRec(0, 1, 1, 3, 130, 720),
         <<65, 50, 110, 128, 10, 218, 0, 0>>, AcRec(1, 2, 0, 0, 110, 700)}
      RECURSIVE Concat(_)
      Concat(seqs) ==
        IF seqs = <<>> THEN <<>> ELSE Head(seqs) \o Concat(Tail(seqs))
  IN  {Concat(records) :
         records \in UNION {[1..n -> StatusRecords] : n \in 0..MaxRecords}}

\* the byte strings the checksum is taken of
CrcInputs ==
  UNION {[1..n -> {0, 1, 2, 128, 255}] : n \in 0..MaxCrcLen}
    \cup {<<49, 50, 51, 52, 53, 54, 55, 56, 57>>}

\* every input paired with its checksum, computed once
CrcTable == {<<buffer, crc16(buffer)>> : buffer \in CrcInputs}

\* one run of a codec function: step records its arguments and its result
Coded(op, input, result) ==
  /\ step' = [Idle EXCEPT !.op = op, !.input = input, !.result = result]
  /\ UNCHANGED <<acs, zones>>
  /\ UNCHANGED sessionVars

\* decode_ac_status(count_repeats, 8, data): the events it emits
DecodeAcStatus(data) ==
  Coded("decode_ac_status", data, AcStatusEvents(Len(data) \div 8, data, 0))

\* decode_zones_status(count_repeats, 8, data): the events it emits
DecodeZonesStatus(data) ==
  Coded("decode_zones_status", data, ZoneStatusEvents(Len(data) \div 8, data, 0))

Checksum(buffer) ==
  Coded("crc16", buffer, (CHOOSE pair \in CrcTable : pair[1] = buffer)[2])

NextCodec ==
  \/ \E cmd \in CodecCommands : Command(cmd)
  \/ \E data \in StatusPayloads : DecodeAcStatus(data)
  \/ \E data \in StatusPayloads : DecodeZonesStatus(data)
  \/ \E buffer \in CrcInputs : Checksum(buffer)

SpecCodec == Init /\ [][NextCodec]_vars

(***************************************************************************)
(* Platform (AirtouchPlatform): UDP discovery, the list of wrappers and    *)
(* the routing of the events of the shared emitter.  Texts are sequences   *)
(* of character codes.                                                     *)
(***************************************************************************)
Comma == 44

\* '::REQUEST-POLYAIRE-AIRTOUCH-DEVICE-INFO:;'
REQUEST ==
  <<58, 58, 82, 69, 81, 85, 69, 83, 84, 45, 80, 79, 76, 89, 65, 73, 82,
     69, 45, 65, 73, 82, 84, 79, 85, 67, 72, 45, 68, 69, 86, 73, 67, 69,
     45, 73, 78, 70, 79, 58, 59>>

\* String.prototype.split on one separator character
RECURSIVE SplitFrom(_, _, _, _)
SplitFrom(text, sep, i, field) ==
  IF i > Len(text) THEN <<field>>
  ELSE IF text[i] = sep THEN <<field>> \o SplitFrom(text, sep, i + 1, <<>>)
  ELSE SplitFrom(text, sep, i + 1, Append(field, text[i]))

Split(text, sep) == SplitFrom(text, sep, 1, <<>>)

\* messages[i]: undefined past the end of the array
FieldAt(messages, i) == IF i < Len(messages) THEN Some(messages[i + 1]) ELSE Undefined

\* the 'message' listener of the discovery socket: the events it emits
DiscoveryEvents(message) ==
  IF message # REQUEST
    THEN LET messages == Split(message, Comma)
         IN  <<[type |-> "found_devices",
                ip |-> FieldAt(messages, 0),
                consoleId |-> FieldAt(messages, 1),
                AirtouchId |-> FieldAt(messages, 3),
                deviceName |-> FieldAt(messages, 4)]>>
    ELSE <<>>

\* airtouch_devices.find(({ AirtouchId }) => AirtouchId === in_AirtouchId):
\* the index of the first match, 0 when there is none
RECURSIVE FindDevice(_, _, _)
FindDevice(devices, in_AirtouchId, k) ==
  IF k > Len(devices) THEN 0
  ELSE IF devices[k].AirtouchId = in_AirtouchId THEN k
  ELSE FindDevice(devices, in_AirtouchId, k + 1)

\* new Airtouch5Wrapper(...): the session is constructed and connect() runs
NewWrapper(in_ip, consoleId, in_AirtouchId, deviceName) ==
  [ip |-> in_ip, consoleId |-> consoleId, AirtouchId |-> in_AirtouchId,
   deviceName |-> deviceName, acs |-> EmptyArray, zones |-> EmptyArray,
   socks |-> connect(<<>>)]

\* variant: every device record gets a wrapper of its own
addAirtouchDevice_NoDedup(devices, in_ip, consoleId, in_AirtouchId, deviceName) ==
  Append(devices, NewWrapper(in_ip, consoleId, in_AirtouchId, deviceName))

addAirtouchDevice(devices, in_ip, consoleId, in_AirtouchId, deviceName) ==
  IF FindDevice(devices, in_AirtouchId, 1) = 0
    THEN Append(devices, NewWrapper(in_ip, consoleId, in_AirtouchId, deviceName))
    ELSE devices

\* the 'found_devices' listener applied to every event of one reply
RECURSIVE FoundDevices(_, _, _)
FoundDevices(devices, evs, i) ==
  IF i > Len(evs) THEN devices
  ELSE FoundDevices(addAirtouchDevice(devices, evs[i].ip, evs[i].consoleId,
                                      evs[i].AirtouchId, evs[i].deviceName),
                    evs, i + 1)

\* what comes in on the discovery port: the replies of two controllers, the
\* echo of the own broadcast, and a datagram that is no device record
DiscoveryReplies ==
  {<<49, 44, 67, 44, 44, 88, 44, 78>>, <<50, 44, 67, 44, 44, 89, 44, 78>>,
   REQUEST, <<103, 97, 114, 98, 97, 103, 101>>}

\* one datagram on the discovery socket
DiscoveryMessage(message) ==
  /\ airtouch_devices' = FoundDevices(airtouch_devices, DiscoveryEvents(message), 1)
  /\ step' = [Idle EXCEPT !.op = "discovery", !.input = message,
                          !.emitted = Len(DiscoveryEvents(message))]
  /\ UNCHANGED <<now, lastDataTime, socks, timers, intervals, ticksDue,
                 got_ac_ability, got_zone_status, acs, zones, livenessLog,
                 abilitySeen>>

\* the events the session of a controller emits in the platform model
PlatformEvents ==
  {[type |-> "ac_ability", ac_ability |-> AcAbilityOf(AbilityRec(0, NameL, 0, 2, 23, 29))],
   [type |-> "ac_status", ac_status |-> AcStatusOf(AcRec(1, 0, 4, 2, 120, 740))],
   [type |-> "zone_status", zone_status |-> ZoneStatusOf(ZoneRec(1, 0, 50, 120, 1, 730))],
   [type |-> "zone_name", zone_number |-> 0, zone_name |-> NameK]}

\* the aggregator of one wrapper after one event
WrapperAfter(wrapper, ev) ==
  LET st == Deliver([acs |-> wrapper.acs, zones |-> wrapper.zones, threw |-> FALSE], ev)
  IN  [wrapper EXCEPT !.acs = st.acs, !.zones = st.zones]

WrapperRaises(wrapper, ev) ==
  Deliver([acs |-> wrapper.acs, zones |-> wrapper.zones, threw |-> FALSE], ev).threw

\* variant: every wrapper takes every event of the shared emitter
onNotification_All(devices, ev, in_AirtouchId) ==
  [devices |-> [k \in 1..Len(devices) |-> WrapperAfter(devices[k], ev)],
   threw |-> \E k \in 1..Len(devices) : WrapperRaises(devices[k], ev)]

\* onACStatusNotification, onZoneStatusNotification, onZoneNameNotification
\* and onACAbilityNotification: find the wrapper of the id, call its method
onNotification(devices, ev, in_AirtouchId) ==
  LET result == FindDevice(devices, in_AirtouchId, 1)
  IN  IF result = 0 THEN [devices |-> devices, threw |-> FALSE]
      ELSE [devices |-> [devices EXCEPT ![result] = WrapperAfter(@, ev)],
            threw |-> WrapperRaises(devices[result], ev)]

\* onAttemptReconnect: find the wrapper of the id, call AttemptReconnect
onAttemptReconnect(devices, in_AirtouchId) ==
  LET result == FindDevice(devices, in_AirtouchId, 1)
  IN  IF result = 0 THEN devices
      ELSE [devices EXCEPT ![result].socks = AttemptReconnect(@)]


\* the session of wrapper x decodes a record and emits its event together
\* with the AirtouchId it was constructed with
SessionEvent(x, ev) ==
  /\ x \in 1..Len(airtouch_devices)
  \* a session has a controller at the other end only if its address came
  \* out of a device record; the socket of any other session never opens
  /\ airtouch_devices[x].deviceName # Undefined
  /\ LET routed == onNotification(airtouch_devices, ev, airtouch_devices[x].AirtouchId)
     IN  /\ airtouch_devices' = routed.devices
         /\ step' = [Idle EXCEPT !.op = "event", !.sock = x, !.emitted = 1,
                                 !.threw = routed.threw]
  /\ UNCHANGED <<now, lastDataTime, socks, timers, intervals, ticksDue,
                 got_ac_ability, got_zone_status, acs, zones, livenessLog,
                 abilitySeen>>

\* the session of wrapper x loses its socket and emits attempt_reconnect
SessionReconnect(x) ==
  /\ x \in 1..Len(airtouch_devices)
  /\ Len(airtouch_devices[x].socks) < MaxWrapperSockets
  /\ LET closed == [airtouch_devices EXCEPT ![x].socks = DestroyDevice(@)]
     IN  airtouch_devices' = onAttemptReconnect(closed, airtouch_devices[x].AirtouchId)
  /\ step' = [Idle EXCEPT !.op = "reconnect", !.sock = x, !.signals = 1,
                          !.destroys = 1]
  /\ UNCHANGED <<now, lastDataTime, socks, timers, intervals, ticksDue,
                 got_ac_ability, got_zone_status, acs, zones, livenessLog,
                 abilitySeen>>

NextPlatform ==
  \/ \E message \in DiscoveryReplies : DiscoveryMessage(message)
  \/ \E x \in 1..Len(airtouch_devices) : \E ev \in PlatformEvents : SessionEvent(x, ev)
  \/ \E x \in 1..Len(airtouch_devices) : SessionReconnect(x)

SpecPlatform == Init /\ [][NextPlatform]_vars


(***************************************************************************)
(* Accessories (AirTouchZoneAccessory, AirTouchACAccessory): the state     *)
(* queries of the home-automation host.  A characteristic value is the     *)
(* name of the member of the host's enumeration that the getter returns.   *)
(***************************************************************************)
\* a < b in JavaScript numbers: false when either side is NaN
LessThan(a, b) == IsNum(a) /\ IsNum(b) /\ a < b

\* variant: the temperatures decide in every mode
handleCurrentHeatingCoolingStateGet_ByTemperature(zone_status, ac_status) ==
  IF zone_status.zone_power_state = 0 THEN "INACTIVE"
  ELSE IF zone_status.zone_damper_position = 0 THEN "IDLE"
  ELSE IF ac_status.ac_mode \notin {0, 1, 2, 3, 4, 8, 9} THEN "INACTIVE"
  ELSE IF LessThan(zone_status.zone_target, zone_status.zone_temp) THEN "COOLING"
  ELSE "HEATING"

\* AirTouchZoneAccessory: the current heater-cooler state of a zone
handleCurrentHeatingCoolingStateGet(zone_status, ac_status) ==
  LET power_state == zone_status.zone_power_state
      ac_mode == ac_status.ac_mode
      zone_target == zone_status.zone_target
      zone_current == zone_status.zone_temp
  IN  IF power_state = 0 THEN "INACTIVE"
      ELSE IF zone_status.zone_damper_position = 0 THEN "IDLE"
      ELSE CASE ac_mode = 0 -> IF LessThan(zone_target, zone_current)
                                 THEN "COOLING" ELSE "HEATING"
             [] ac_mode = 1 -> "HEATING"
             [] ac_mode = 2 -> "COOLING"
             [] ac_mode = 3 -> "COOLING"
             [] ac_mode = 4 -> "COOLING"
             [] ac_mode = 8 -> "HEATING"
             [] ac_mode = 9 -> "COOLING"
             [] OTHER -> "INACTIVE"

\* variant: the zone's own power state overrides the mode
handleTargetHeatingCoolingStateGet_OffIsAuto(zone_status, ac_status) ==
  IF zone_status.zone_power_state = 0 THEN "AUTO"
  ELSE CASE ac_status.ac_mode \in {1, 8} -> "HEAT"
         [] ac_status.ac_mode \in {2, 3, 4, 9} -> "COOL"
         [] OTHER -> "AUTO"

\* AirTouchZoneAccessory: the target heater-cooler state of a zone; the
\* getter reads this.ac.ac_status only
handleTargetHeatingCoolingStateGet(zone_status, ac_status) ==
  LET ac_mode == ac_status.ac_mode
  IN  CASE ac_mode = 0 -> "AUTO"
        [] ac_mode = 1 -> "HEAT"
        [] ac_mode = 2 -> "COOL"
        [] ac_mode = 3 -> "COOL"
        [] ac_mode = 4 -> "COOL"
        [] ac_mode = 8 -> "HEAT"
        [] ac_mode = 9 -> "COOL"
        [] OTHER -> "AUTO"

\* AirTouchACAccessory.areAllZonesClosed over this.zones
areAllZonesClosed(zs, ac_number) ==
  \A i \in 0..15 :
    (i \in DOMAIN zs /\ zs[i].zone_status # Undefined)
      => ~(zs[i].ac_number = ac_number
           /\ zs[i].zone_status[1].zone_damper_position # 0)

\* AirTouchACAccessory: the current heater-cooler state of a unit
handleCurrentHeaterCoolerStateGet(ac_number, ac_status, zs) ==
  LET ac_mode == ac_status.ac_mode
      zones_all_off == areAllZonesClosed(zs, ac_number)
      ac_target == ac_status.ac_target
      ac_current == ac_status.ac_temp
  IN  IF ac_status.ac_power_state = 0 THEN "INACTIVE"
      ELSE IF zones_all_off THEN "IDLE"
      ELSE CASE ac_mode = 0 -> IF LessThan(ac_target, ac_current)
                                 THEN "COOLING" ELSE "HEATING"
             [] ac_mode = 1 -> "HEATING"
             [] ac_mode = 2 -> "COOLING"
             [] ac_mode = 3 -> "COOLING"
             [] ac_mode = 4 -> "COOLING"
             [] ac_mode = 8 -> "HEATING"
             [] ac_mode = 9 -> "COOLING"
             [] OTHER -> "IDLE"

\* AirTouchACAccessory: the target heater-cooler state of a unit
handleTargetHeaterCoolerStateGet(ac_status) ==
  LET ac_mode == ac_status.ac_mode
  IN  CASE ac_mode = 0 -> "AUTO"
        [] ac_mode = 1 -> "HEAT"
        [] ac_mode = 2 -> "COOL"
        [] ac_mode = 3 -> "COOL"
        [] ac_mode = 4 -> "COOL"
        [] ac_mode = 8 -> "HEAT"
        [] ac_mode = 9 -> "COOL"
        [] OTHER -> "AUTO"

\* AirTouchZoneAccessory: the Active characteristic of a zone
handleActiveGet(zone_status) ==
  CASE zone_status.zone_power_state = 0 -> "INACTIVE"
    [] zone_status.zone_power_state = 1 -> "ACTIVE"
    [] OTHER -> "INACTIVE"

\* AirTouchACAccessory: the Active characteristic of a unit
handleAcActiveGet(ac_status) ==
  CASE ac_status.ac_power_state = 0 -> "INACTIVE"
    [] ac_status.ac_power_state = 1 -> "ACTIVE"
    [] ac_status.ac_power_state = 2 -> "INACTIVE"
    [] ac_status.ac_power_state = 3 -> "ACTIVE"
    [] OTHER -> "INACTIVE"

\* the statuses the decoders can store: every power state, a closed and an
\* open damper, target below, above and equal to the current temperature,
\* and a record cut short so that both temperatures are NaN
ZoneQueryStatuses ==
  {ZoneStatusOf(ZoneRec(p, 0, d, tc[1], 1, tc[2])) :
     p \in 0..3, d \in {0, 50, 100},
     tc \in {<<110, 730>>, <<130, 710>>, <<120, 720>>}}
  \cup {ZoneStatusOf(<<64, 50>>)}

\* every value of the four mode bits, a unit that is off and on; and every
\* other value of the four power bits, in heat mode
AcQueryStatuses ==
  {AcStatusOf(AcRec(p, 0, m, 2, tc[1], tc[2])) :
     p \in {0, 1}, m \in 0..15,
     tc \in {<<110, 730>>, <<130, 710>>, <<120, 720>>}}
  \cup {AcStatusOf(AcRec(p, 0, 1, 2, 120, 720)) : p \in 2..15}

\* this.ac.ac_status of a zone's accessory: every value of the mode bits
ZoneQueryAcStatuses == {AcStatusOf(AcRec(1, 0, m, 2, 120, 720)) : m \in 0..15}

\* this.zones of a unit's accessory: nothing, a zone without a status, a
\* closed zone, an open zone, and an open zone of another unit
AcQueryZones ==
  LET blank == [acs |-> EmptyArray, zones |-> createZone(EmptyArray, 0, 0),
                threw |-> FALSE]
      other == [acs |-> EmptyArray, zones |-> createZone(EmptyArray, 0, 1),
                threw |-> FALSE]
      closed == ZoneStatusOf(ZoneRec(1, 0, 0, 110, 1, 730))
      open == ZoneStatusOf(ZoneRec(1, 0, 50, 110, 1, 730))
  IN  {EmptyArray, blank.zones,
       AddUpdateZoneStatus(blank, closed).zones,
       AddUpdateZoneStatus(blank, open).zones,
       AddUpdateZoneStatus(other, open).zones}

\* one run of a getter: step records its arguments and the value returned
Queried(op, input, result) ==
  /\ step' = [Idle EXCEPT !.op = op, !.input = input, !.result = result]
  /\ UNCHANGED <<acs, zones>>
  /\ UNCHANGED sessionVars

ZoneCurrentStateGet(zone_status, ac_status) ==
  Queried("handleCurrentHeatingCoolingStateGet",
          [ac_status |-> ac_status, zone_status |-> zone_status],
          handleCurrentHeatingCoolingStateGet(zone_status, ac_status))

ZoneTargetStateGet(zone_status, ac_status) ==
  Queried("handleTargetHeatingCoolingStateGet",
          [ac_status |-> ac_status, zone_status |-> zone_status],
          handleTargetHeatingCoolingStateGet(zone_status, ac_status))

AcCurrentStateGet(ac_status, zs) ==
  Queried("handleCurrentHeaterCoolerStateGet",
          [ac_status |-> ac_status, zones |-> zs],
          handleCurrentHeaterCoolerStateGet(ac_status.ac_unit_number, ac_status, zs))

AcTargetStateGet(ac_status, zs) ==
  Queried("handleTargetHeaterCoolerStateGet",
          [ac_status |-> ac_status, zones |-> zs],
          handleTargetHeaterCoolerStateGet(ac_status))

ZoneActiveGet(zone_status, ac_status) ==
  Queried("handleActiveGet",
          [ac_status |-> ac_status, zone_status |-> zone_status],
          handleActiveGet(zone_status))

AcActiveGet(ac_status, zs) ==
  Queried("handleAcActiveGet",
          [ac_status |-> ac_status, zones |-> zs],
          handleAcActiveGet(ac_status))

NextAccessory ==
  \/ \E zone_status \in ZoneQueryStatuses : \E ac_status \in ZoneQueryAcStatuses :
       ZoneCurrentStateGet(zone_status, ac_status)
  \/ \E zone_status \in ZoneQueryStatuses : \E ac_status \in ZoneQueryAcStatuses :
       ZoneTargetStateGet(zone_status, ac_status)
  \/ \E ac_status \in AcQueryStatuses : \E zs \in AcQueryZones :
       AcCurrentStateGet(ac_status, zs)
  \/ \E ac_status \in AcQueryStatuses : \E zs \in AcQueryZones :
       AcTargetStateGet(ac_status, zs)
  \/ \E zone_status \in ZoneQueryStatuses :
       ZoneActiveGet(zone_status, AcStatusOf(AcRec(1, 0, 1, 2, 120, 720)))
  \/ \E p \in 0..15 :
       AcActiveGet(AcStatusOf(AcRec(p, 0, 1, 2, 120, 720)), EmptyArray)

SpecAccessory == Init /\ [][NextAccessory]_vars


(***************************************************************************)
(* Properties.                                                             *)
(***************************************************************************)
\* C1: GET_AC_STATUS and GET_ZONE_STATUS are written only by the handler run
\* that decoded an AC ability message, as exactly that pair in that order,
\* and never between a connect() and the first ability message after it.
C1_StatusRequestsFollowAbility ==
  LET requests == [i \in 1..Len(step.writes) |-> step.writes[i].request]
  IN  (\E i \in 1..Len(requests) : requests[i] \in {"GET_AC_STATUS", "GET_ZONE_STATUS"})
        => /\ step.op = "data"
           /\ step.decoder = "decode_ac_ability"
           /\ requests = <<"GET_AC_STATUS", "GET_ZONE_STATUS">>
           /\ abilitySeen

\* an ability message decoded on a socket opened by a reconnect
W_C1 ==
  /\ step.op = "data"
  /\ step.decoder = "decode_ac_ability"
  /\ Len(step.writes) = 2
  /\ step.writes[1].request = "GET_AC_STATUS"
  /\ step.writes[2].request = "GET_ZONE_STATUS"
  /\ step.sock > 1

\* C2: GET_ZONE_NAMES is written only when an ability batch and a zone
\* status batch have both been received by the session.
CX_C2_NamesNeedAbilityAndZoneStatus ==
  (\E i \in 1..Len(step.writes) : step.writes[i].request = "GET_ZONE_NAMES")
    => (got_ac_ability /\ got_zone_status)

\* C3: a run of checkLastDateReceived destroys and signals together and at
\* most once, leaves the liveness clock restarted on a fresh socket, and two
\* liveness signals are always more than 120 s apart.
C3_OneSignalPerSilence ==
  /\ step.op = "check" =>
       /\ step.signals = step.destroys
       /\ step.signals \in {0, 1}
       /\ now - lastDataTime <= LivenessTimeout
  /\ (step.op = "check" /\ step.signals = 1) =>
       /\ lastDataTime = now
       /\ socks[device] = "opening"
       /\ socks[device - 1] = "destroyed"
  /\ \A i \in 2..Len(livenessLog) :
       livenessLog[i] - livenessLog[i - 1] > LivenessTimeout

\* the second silence period of a session ends in its one signal, with the
\* intervals of the earlier connects still running
W_C3 ==
  /\ step.op = "check"
  /\ step.signals = 1
  /\ step.destroys = 1
  /\ Len(livenessLog) = 2
  /\ intervals >= 3

\* C4: the error listener destroys the socket at once and arms one timer;
\* the timer signals exactly once when no connect() happened since, it
\* signals only if the current socket was destroyed, and it never runs twice.
C4_BackoffSignalsOnceUnlessReconnected ==
  /\ step.op = "error" =>
       /\ socks[step.sock] = "destroyed"
       /\ socks[device] = "destroyed"
       /\ step.destroys = 1
       /\ step.signals = 0
       /\ \E t \in timers : t.sock = step.sock /\ t.due = now + ReconnectDelay
  /\ (step.op = "backoff" /\ ~step.stale) =>
       /\ step.signals = 1
       /\ socks[device] = "opening"
  /\ (step.op = "backoff" /\ step.signals = 1) => socks[device - 1] = "destroyed"
  /\ (step.op = "backoff" /\ step.signals = 0) => socks[device] \in {"opening", "open"}
  /\ step.op = "backoff" => \A t \in timers : t.sock # step.sock

\* a timer fires after the liveness check already reconnected: no signal
W_C4 ==
  /\ step.op = "backoff"
  /\ step.stale
  /\ step.signals = 0
  /\ socks[device] \in {"opening", "open"}

\* C5: a backoff timer armed before a newer connect() never signals.
CX_C5_StaleTimerNeverSignals ==
  (step.op = "backoff" /\ step.stale) => step.signals = 0

\* C6: a zone status for an unknown zone and an AC status for an unknown
\* unit leave acs and zones unchanged and raise nothing.
CX_C6_UnknownStatusIsDropped ==
  [][/\ \A zone_status \in ZoneStatusInputs :
          (zone_status.zone_number \notin DOMAIN zones /\ FeedZoneStatus(zone_status))
            => (acs' = acs /\ zones' = zones /\ ~step'.threw)
     /\ \A ac_status \in AcStatusInputs :
          (ac_status.ac_unit_number \notin DOMAIN acs /\ FeedAcStatus(ac_status))
            => (acs' = acs /\ zones' = zones /\ ~step'.threw)]_vars

\* C7: an ability for a unit that is already known changes neither acs nor
\* zones.
C7_AbilityFirstWriteWins ==
  [][\A ac_ability \in AbilityInputs :
       (ac_ability.ac_unit_number \in DOMAIN acs /\ FeedAbility(ac_ability))
         => (acs' = acs /\ zones' = zones)]_vars

\* a second ability with another start zone arrived for a known unit
W_C7 ==
  /\ step.op = "AddAcAbility"
  /\ step.known
  /\ step.input.ac_unit_number \in DOMAIN acs
  /\ acs[step.input.ac_unit_number].ac_ability.ac_start_zone # step.input.ac_start_zone
  /\ acs[step.input.ac_unit_number].ac_ability.ac_name # step.input.ac_name

\* C8: the first ability of unit u with start zone s and zone count c leaves
\* a zone record owned by u at each of s..s+c-1, creates no record outside
\* that range and changes none there.
C8_FirstAbilityCreatesItsZoneRange ==
  [][\A ac_ability \in AbilityInputs :
       (ac_ability.ac_unit_number \notin DOMAIN acs /\ FeedAbility(ac_ability))
         => LET u == ac_ability.ac_unit_number
                range == ac_ability.ac_start_zone ..
                           (ac_ability.ac_start_zone + ac_ability.ac_zone_count - 1)
            IN  /\ DOMAIN zones' = DOMAIN zones \cup range
                /\ \A z \in range : zones'[z].ac_number = u
                /\ \A z \in range \ DOMAIN zones :
                     /\ zones'[z].zone_number = z
                     /\ zones'[z].registered = FALSE
                /\ \A z \in DOMAIN zones \ range : zones'[z] = zones[z]]_vars

\* unit 1 reported its one zone while unit 0 already owned zone 0
W_C8 ==
  /\ step.op = "AddAcAbility"
  /\ ~step.known
  /\ step.input.ac_unit_number = 1
  /\ step.input.ac_start_zone = 1
  /\ step.input.ac_zone_count = 1
  /\ DOMAIN zones = {0, 1}
  /\ zones[0].ac_number = 0
  /\ zones[1].ac_number = 1

\* C9: a zone name message whose only records for a zone carry an empty
\* name does not register that zone.
CX_C9_EmptyNameNeverRegisters ==
  [][\A s \in 1..Len(socks) : \A chunk \in SessionChunks :
       (Dispatched[chunk].decoder = "decode_zone_names" /\ Data(s, chunk))
         => LET evs == Dispatched[chunk].events
            IN  \A z \in DOMAIN zones :
                  ( /\ ~zones[z].registered
                    /\ \E i \in 1..Len(evs) : evs[i].zone_number = z
                    /\ \A i \in 1..Len(evs) :
                         evs[i].zone_number = z => evs[i].zone_name = <<>> )
                    => ~zones'[z].registered]_vars

\* C10: a chunk with a valid header that is cut short emits no event, lets
\* no exception out of the data listener and leaves the socket open.
CX_C10_TruncatedMessageIsDropped ==
  [][\A s \in 1..Len(socks) : \A chunk \in {F_ShortStandard, F_MissingRecord} :
       Data(s, chunk)
         => /\ step'.emitted = 0
            /\ ~step'.threw
            /\ socks'[s] = "open"]_vars

\* C11: a chunk whose trailing CRC16 differs from the CRC16 of its body
\* emits no event, causes no request and leaves acs and zones unchanged.
CX_C11_BadCrcIsDropped ==
  [][\A s \in 1..Len(socks) : \A chunk \in BadCrcChunks :
       Data(s, chunk)
         => /\ step'.emitted = 0
            /\ step'.writes = <<>>
            /\ acs' = acs
            /\ zones' = zones]_vars

\* C12: a chunk whose four bytes after the envelope are not the header,
\* chunks shorter than 14 bytes included, runs no decoder, emits nothing,
\* writes nothing, raises nothing, changes no flag and no collection, and
\* leaves every socket as it was.
C12_BadHeaderIsDiscarded ==
  [][\A s \in 1..Len(socks) : \A chunk \in BadHeaderChunks :
       Data(s, chunk)
         => /\ step'.decoder = "none"
            /\ step'.emitted = 0
            /\ step'.writes = <<>>
            /\ ~step'.threw
            /\ got_ac_ability' = got_ac_ability
            /\ got_zone_status' = got_zone_status
            /\ acs' = acs
            /\ zones' = zones
            /\ socks' = socks
            /\ socks'[s] = "open"]_vars

\* a twelve-byte chunk was handed to the listener of an open socket
W_C12 ==
  /\ step.op = "data"
  /\ step.input = F_Runt
  /\ Len(step.input) < 14
  /\ step.decoder = "none"
  /\ socks[step.sock] = "open"

\* C13: a chunk with a valid header and an unknown address or subtype, of
\* any length, emits nothing, writes nothing, changes no flag and raises
\* nothing.
CX_C13_UnknownKindIsNoOp ==
  [][\A s \in 1..Len(socks) : \A chunk \in UnknownKindChunks :
       Data(s, chunk)
         => /\ step'.emitted = 0
            /\ step'.writes = <<>>
            /\ got_ac_ability' = got_ac_ability
            /\ got_zone_status' = got_zone_status
            /\ ~step'.threw]_vars

\* C14: a discovery datagram that does not split into at least five
\* comma-separated fields emits no found_devices event and creates no
\* wrapper.
CX_C14_MalformedReplyIsIgnored ==
  [][\A message \in DiscoveryReplies :
       (Len(Split(message, Comma)) < 5 /\ DiscoveryMessage(message))
         => /\ step'.emitted = 0
            /\ airtouch_devices' = airtouch_devices]_vars

\* C15: after the 'data' listener ran on any chunk, whatever its header,
\* address or subtype, lastDataTime is the current time.
C15_EveryChunkIsActivity ==
  step.op = "data" => lastDataTime = now

\* a first socket that is still in use after more than 120 s, kept alive by
\* a chunk with an unknown address
W_C15 ==
  /\ step.op = "data"
  /\ step.input = F_UnknownAddress
  /\ step.decoder = "none"
  /\ now > LivenessTimeout
  /\ lastDataTime = now
  /\ Len(socks) = 1
  /\ livenessLog = <<>>

\* C16: the connect callback of every socket, the first and each later one,
\* writes exactly one GET_AC_ABILITY on that socket, which is the current
\* one, and no other handler writes that request.
C16_EveryConnectRequestsAbility ==
  /\ step.op = "connected" =>
       /\ step.writes = <<[sock |-> step.sock, request |-> "GET_AC_ABILITY"]>>
       /\ step.sock = device
       /\ socks[step.sock] = "open"
  /\ \A i \in 1..Len(step.writes) :
       step.writes[i].request = "GET_AC_ABILITY" => step.op = "connected"

\* a socket opened by a reconnect connects after the abilities were known
W_C16 ==
  /\ step.op = "connected"
  /\ step.sock > 1
  /\ got_ac_ability
  /\ Len(step.writes) = 1

\* C17: no step removes a unit from acs or changes its ac_ability.
C17_AbilityIsNeverChanged ==
  [][\A u \in DOMAIN acs :
       /\ u \in DOMAIN acs'
       /\ acs'[u].ac_ability = acs[u].ac_ability]_vars

\* after a reconnect the controller described unit 0 differently, and the
\* first description is still the stored one
W_C17 ==
  /\ step.op = "data"
  /\ step.input = F_AbilityAgain
  /\ step.decoder = "decode_ac_ability"
  /\ step.sock > 1
  /\ 0 \in DOMAIN acs
  /\ acs[0].ac_ability.ac_name = NameL
  /\ acs[0].ac_ability.ac_start_zone = 0

\* C18: a zone status for a known zone leaves the message, field for field,
\* as the stored status, completed by the zone's own name only, and changes
\* neither the zone's name, owner and registered flag nor any other zone or
\* unit; an AC status for a known unit leaves exactly the message as the
\* stored status and changes neither the unit's ability nor any other unit
\* or zone.
C18_StatusIsReplacedWholesale ==
  [][/\ \A zone_status \in ZoneStatusInputs :
          (zone_status.zone_number \in DOMAIN zones /\ FeedZoneStatus(zone_status))
            => LET z == zone_status.zone_number
                   stored == zones'[z].zone_status
               IN  /\ Len(stored) = 1
                   /\ DOMAIN stored[1] = DOMAIN zone_status \cup {"zone_name"}
                   /\ \A f \in DOMAIN zone_status : stored[1][f] = zone_status[f]
                   /\ stored[1].zone_name = zones[z].zone_name
                   /\ zones'[z].zone_name = zones[z].zone_name
                   /\ zones'[z].ac_number = zones[z].ac_number
                   /\ zones'[z].registered = zones[z].registered
                   /\ DOMAIN zones' = DOMAIN zones
                   /\ \A other \in DOMAIN zones \ {z} : zones'[other] = zones[other]
                   /\ acs' = acs
     /\ \A ac_status \in AcStatusInputs :
          (ac_status.ac_unit_number \in DOMAIN acs /\ FeedAcStatus(ac_status))
            => LET u == ac_status.ac_unit_number
               IN  /\ acs'[u].ac_status = Some(ac_status)
                   /\ acs'[u].ac_ability = acs[u].ac_ability
                   /\ DOMAIN acs' = DOMAIN acs
                   /\ \A other \in DOMAIN acs \ {u} : acs'[other] = acs[other]
                   /\ zones' = zones]_vars

\* a registered unit, which therefore had a status before, took the status
\* that reports it switched off
W_C18 ==
  /\ step.op = "AddUpdateAcStatus"
  /\ step.known
  /\ step.input.ac_power_state = 0
  /\ acs[step.input.ac_unit_number].registered
  /\ acs[step.input.ac_unit_number].ac_status = Some(step.input)

\* C19: a command method writes at most once and leaves the bootstrap
\* flags, lastDataTime, the sockets and both collections alone; the stored
\* status of a unit or zone changes only in the handler run that decoded an
\* AC status or a zone status message.
C19_CommandsAreFireAndForget ==
  [][/\ \A cmd \in Commands :
          Command(cmd)
            => /\ Len(step'.writes) <= 1
               /\ got_ac_ability' = got_ac_ability
               /\ got_zone_status' = got_zone_status
               /\ lastDataTime' = lastDataTime
               /\ socks' = socks
               /\ acs' = acs
               /\ zones' = zones
     /\ (\E u \in DOMAIN acs : acs'[u].ac_status # acs[u].ac_status)
          => (step'.op = "data" /\ step'.decoder = "decode_ac_status")
     /\ (\E z \in DOMAIN zones : zones'[z].zone_status # zones[z].zone_status)
          => (step'.op = "data" /\ step'.decoder = "decode_zones_status")
     /\ \A u \in DOMAIN acs' \ DOMAIN acs : acs'[u].ac_status = Undefined
     /\ \A z \in DOMAIN zones' \ DOMAIN zones : zones'[z].zone_status = Undefined]_vars

\* unit 0 is stored as switched on and was just told to switch off: one
\* message left, the stored status still says on
W_C19 ==
  /\ step.op = "command"
  /\ step.input.method = "acSetActive"
  /\ step.input.value = 0
  /\ Len(step.writes) = 1
  /\ 0 \in DOMAIN acs
  /\ acs[0].ac_status # Undefined
  /\ acs[0].ac_status[1].ac_power_state = 1

\* C20: an event or reconnect signal of the session of wrapper x changes
\* wrapper x only, as its own aggregator method or connect() does; every
\* other wrapper keeps its acs, zones and sockets, and no wrapper is added
\* or removed.
C20_EventsStayWithTheirController ==
  [][(step'.op \in {"event", "reconnect"})
       => LET x == step'.sock
          IN  /\ Len(airtouch_devices') = Len(airtouch_devices)
              /\ \A y \in 1..Len(airtouch_devices) :
                   y # x => airtouch_devices'[y] = airtouch_devices[y]
              /\ step'.op = "event"
                   => \E ev \in PlatformEvents :
                        /\ SessionEvent(x, ev)
                        /\ airtouch_devices'[x] = WrapperAfter(airtouch_devices[x], ev)
              /\ step'.op = "reconnect"
                   => /\ SessionReconnect(x)
                      /\ Len(airtouch_devices'[x].socks)
                           = Len(airtouch_devices[x].socks) + 1
                      /\ airtouch_devices'[x].acs = airtouch_devices[x].acs
                      /\ airtouch_devices'[x].zones = airtouch_devices[x].zones]_vars

\* the second of three wrappers took an event of its own session while the
\* first still knows no unit
W_C20 ==
  /\ step.op = "event"
  /\ step.sock = 2
  /\ ~step.threw
  /\ Len(airtouch_devices) = 3
  /\ DOMAIN airtouch_devices[2].acs = {0}
  /\ DOMAIN airtouch_devices[1].acs = {}
  /\ DOMAIN airtouch_devices[3].acs = {}
  /\ airtouch_devices[1].AirtouchId # airtouch_devices[2].AirtouchId

\* C21: the zone's current-state query is: zone power 0 gives inactive;
\* otherwise damper 0 gives idle; otherwise mode 0 gives cooling when the
\* target is below the current temperature and heating when not, modes 1
\* and 8 give heating, modes 2, 3, 4 and 9 give cooling whatever the
\* temperatures, and every other mode gives inactive.
C21_ZoneCurrentStateReference ==
  step.op = "handleCurrentHeatingCoolingStateGet" =>
    LET z == step.input.zone_status
        mode == step.input.ac_status.ac_mode
        below == IsNum(z.zone_target) /\ IsNum(z.zone_temp)
                 /\ z.zone_target < z.zone_temp
    IN  /\ z.zone_power_state = 0 => step.result = "INACTIVE"
        /\ (z.zone_power_state # 0 /\ z.zone_damper_position = 0)
             => step.result = "IDLE"
        /\ (z.zone_power_state # 0 /\ z.zone_damper_position # 0) =>
             /\ (mode = 0 /\ below) => step.result = "COOLING"
             /\ (mode = 0 /\ ~below) => step.result = "HEATING"
             /\ mode \in {1, 8} => step.result = "HEATING"
             /\ mode \in {2, 3, 4, 9} => step.result = "COOLING"
             /\ mode \notin {0, 1, 2, 3, 4, 8, 9} => step.result = "INACTIVE"

\* mode cool with the target above the current temperature and the damper
\* open reports cooling
W_C21 ==
  /\ step.op = "handleCurrentHeatingCoolingStateGet"
  /\ step.input.ac_status.ac_mode = 4
  /\ step.input.zone_status.zone_power_state = 1
  /\ step.input.zone_status.zone_damper_position = 50
  /\ step.input.zone_status.zone_target > step.input.zone_status.zone_temp
  /\ step.result = "COOLING"

\* C22: with the power on and an open damper (zone level) or an open zone
\* (unit level), a mode code outside {0, 1, 2, 3, 4, 8, 9} makes the
\* current-state query of both accessories return inactive.
CX_C22_UnmappedModeIsInactiveInBoth ==
  /\ (/\ step.op = "handleCurrentHeatingCoolingStateGet"
      /\ step.input.zone_status.zone_power_state # 0
      /\ step.input.zone_status.zone_damper_position # 0
      /\ step.input.ac_status.ac_mode \notin {0, 1, 2, 3, 4, 8, 9})
       => step.result = "INACTIVE"
  /\ (/\ step.op = "handleCurrentHeaterCoolerStateGet"
      /\ step.input.ac_status.ac_power_state # 0
      /\ ~areAllZonesClosed(step.input.zones, step.input.ac_status.ac_unit_number)
      /\ step.input.ac_status.ac_mode \notin {0, 1, 2, 3, 4, 8, 9})
       => step.result = "INACTIVE"

\* C23: the target-state query is a function of the unit's mode code alone,
\* the same in both accessories: 0 gives auto, 1 and 8 give heat, 2, 3, 4
\* and 9 give cool, every other code gives auto.
C23_TargetStateFollowsModeOnly ==
  step.op \in {"handleTargetHeatingCoolingStateGet", "handleTargetHeaterCoolerStateGet"} =>
    LET mode == step.input.ac_status.ac_mode
    IN  step.result = IF mode \in {1, 8} THEN "HEAT"
                      ELSE IF mode \in {2, 3, 4, 9} THEN "COOL"
                      ELSE "AUTO"

\* a zone that is switched off with a closed damper still reports the heat
\* target of its unit
W_C23 ==
  /\ step.op = "handleTargetHeatingCoolingStateGet"
  /\ step.input.zone_status.zone_power_state = 0
  /\ step.input.zone_status.zone_damper_position = 0
  /\ step.input.ac_status.ac_mode = 8
  /\ step.result = "HEAT"

\* C24: every AC command carries byte1 = unit number | power state << 4 with
\* the power state defaulting to keep, byte2 = fan speed | mode << 4 with
\* both defaulting to keep, and byte3 = 0x40 when it sets a setpoint and
\* 0x00 when not; acSetTargetTemperature(u, c) carries
\* [u, keep-fan | keep-mode << 4, 0x40, c * 10 - 100].
CX_C24_AcControlBytes ==
  (/\ step.op = "command"
   /\ step.input.method \in {"acSetActive", "acSetTargetTemperature",
                             "acSetTargetHeatingCoolingState", "acSetFanSpeed"}
   /\ step.result # <<>>) =>
    LET cmd == step.input
        byte1 == step.result[19]
        byte2 == step.result[20]
        byte3 == step.result[21]
        byte4 == step.result[22]
        keep == 7 + (5 * 16)
    IN  /\ byte1 % 16 = cmd.number
        /\ cmd.method \in {"acSetTargetTemperature", "acSetFanSpeed"}
             => byte1 \div 16 = 0
        /\ cmd.method \in {"acSetActive", "acSetTargetTemperature"}
             => byte2 = keep
        /\ cmd.method = "acSetFanSpeed"
             => (byte2 % 16 = cmd.value /\ byte2 \div 16 = 5)
        /\ cmd.method = "acSetTargetHeatingCoolingState"
             => byte2 % 16 = 7
        /\ byte3 = IF cmd.method = "acSetTargetTemperature" THEN 64 ELSE 0
        /\ (cmd.method = "acSetTargetTemperature" /\ cmd.value \in 10..35)
             => byte4 = (cmd.value * 10) - 100

\* C25: a setpoint command puts only a raw target byte in 0..250 on the
\* wire, the byte being celsius * 10 - 100: a temperature outside 10..35
\* degrees never leaves as a value wrapped modulo 256.
CX_C25_SetpointByteInRange ==
  (/\ step.op = "command"
   /\ step.input.method \in {"acSetTargetTemperature", "zoneSetTargetTemperature"}
   /\ step.result # <<>>) =>
    LET raw == IF step.input.method = "acSetTargetTemperature"
                 THEN step.result[22] ELSE step.result[21]
    IN  /\ raw \in 0..250
        /\ raw = (step.input.value * 10) - 100

\* C28: every control command that is sent leaves as 55 55 55 AA, 80 B0,
\* 01, C0, the big-endian length 12, the subtype (0x20 for a zone, 0x22 for
\* an AC), 00 00 00, the repeat header 00 04 00 01, four control bytes, and
\* the big-endian CRC16 of the bytes from the address to the last control
\* byte.
C28_ControlCommandWireFormat ==
  (step.op = "command" /\ step.result # <<>>) =>
    LET message == step.result
        subtype == IF step.input.method \in {"zoneSetActive", "zoneSetPercentage",
                                             "zoneSetTargetTemperature"}
                     THEN 32 ELSE 34
        crc == crc16(SubSeq(message, 5, 22))
    IN  /\ Len(message) = 24
        /\ SubSeq(message, 1, 18)
             = <<85, 85, 85, 170, 128, 176, 1, 192, 0, 12, subtype, 0, 0, 0, 0, 4, 0, 1>>
        /\ \A i \in 19..22 : message[i] \in 0..255
        /\ message[23] = crc \div 256
        /\ message[24] = crc % 256

\* a zone setpoint command left with the zone subtype and its checksum
W_C28 ==
  /\ step.op = "command"
  /\ step.input = [method |-> "zoneSetTargetTemperature", number |-> 1, value |-> 21]
  /\ Len(step.result) = 24
  /\ step.result[11] = 32
  /\ SubSeq(step.result, 19, 22) = <<1, 163, 110, 0>>

\* C26: an AC status batch of N records yields N ac_status events, the i-th
\* decoded from the 8 bytes at offset 8 * i of the repeat data.
CX_C26_AcStatusRecordPerUnit ==
  step.op = "decode_ac_status" =>
    LET data == step.input
        count_repeats == Len(data) \div 8
    IN  /\ Len(step.result) = count_repeats
        /\ \A i \in 0..(count_repeats - 1) :
             step.result[i + 1].ac_status = AcStatusOf(SubSeq(data, (8 * i) + 1, (8 * i) + 8))

\* C27: the zone's current temperature is decoded from bytes 4 and 5 of its
\* record with the formula of the AC's current temperature: the same two
\* bytes give the same temperature, whatever the high bits of byte 4.
CX_C27_ZoneTempUsesAcFormula ==
  step.op = "decode_zones_status" =>
    \A i \in 0..(Len(step.result) - 1) :
      LET group == SubSeq(step.input, (8 * i) + 1, (8 * i) + 8)
      IN  step.result[i + 1].zone_status.zone_temp = AcStatusOf(group).ac_temp

\* C29: crc16 is CRC-16/MODBUS: the register starts at 0xFFFF, the message
\* is shifted in bit by bit with the least significant bit first, 0xA001
\* (bits 15, 13 and 0) is folded in whenever the bit shifted out differs
\* from the message bit, and there is no final XOR.  The result is within
\* 0..0xFFFF, the empty sequence gives 0xFFFF, [0x01, 0x02] gives 0xE181
\* and "123456789" gives the catalogue value 0x4B37.
C29_Crc16IsModbus ==
  step.op = "crc16" =>
    LET buffer == step.input
        Flip(x, k) == IF (x \div (2 ^ k)) % 2 = 1 THEN x - (2 ^ k) ELSE x + (2 ^ k)
        MessageBit(i) == (buffer[((i - 1) \div 8) + 1] \div (2 ^ ((i - 1) % 8))) % 2
        Shifted(register, bit) ==
          IF ((register % 2) + bit) % 2 = 1
            THEN Flip(Flip(Flip(register \div 2, 15), 13), 0)
            ELSE register \div 2
        RECURSIVE Serial(_, _)
        Serial(register, i) ==
          IF i > 8 * Len(buffer) THEN register
          ELSE LET next == Shifted(register, MessageBit(i))
               IN  IF next >= 0 THEN Serial(next, i + 1) ELSE next
    IN  /\ step.result \in 0..65535
        /\ step.result = Serial(65535, 1)
        /\ buffer = <<>> => step.result = 65535
        /\ buffer = <<1, 2>> => step.result = 57729
        /\ buffer = <<49, 50, 51, 52, 53, 54, 55, 56, 57>> => step.result = 19255

\* the checksum of [0x01, 0x02] was taken and is 0xE181
W_C29 ==
  /\ step.op = "crc16"
  /\ step.input = <<1, 2>>
  /\ step.result = 57729

\* C30: a session has at most one socket that is not destroyed: whenever
\* connect() creates a socket, every socket created before it has been
\* destroyed.
C30_OneLiveSocketPerSession ==
  /\ Cardinality({s \in 1..Len(socks) : socks[s] # "destroyed"}) <= 1
  /\ \A s \in 1..(Len(socks) - 1) : socks[s] = "destroyed"

\* the liveness check signalled and connect() ran twice after the first
\* connection: the third socket is open, its predecessors are destroyed
W_C30 ==
  /\ Len(socks) = 3
  /\ socks[3] = "open"
  /\ socks[1] = "destroyed"
  /\ socks[2] = "destroyed"
  /\ Len(livenessLog) >= 1

\* C31: a session never has more than one periodic liveness check
\* registered, however many times connect() has run.
CX_C31_OneLivenessCheck == intervals <= 1

\* C32: over the life of a session GET_ZONE_NAMES is written at most once:
\* got_ac_ability and got_zone_status never go back to false, and a step
\* writes GET_ZONE_NAMES only once and only as it sets got_zone_status.
\* After a reconnect the connect callback requests the abilities again, an
\* ability batch requests both statuses again, and a zone status batch
\* requests no names.
C32_ZoneNamesRequestedOnce ==
  [][LET Names(writes) ==
           {i \in 1..Len(writes) : writes[i].request = "GET_ZONE_NAMES"}
     IN  /\ got_ac_ability => got_ac_ability'
         /\ got_zone_status => got_zone_status'
         /\ Names(step'.writes) # {} =>
              /\ Cardinality(Names(step'.writes)) = 1
              /\ ~got_zone_status
              /\ got_zone_status'
         /\ (step'.op = "connected" /\ step'.sock > 1) =>
              step'.writes = GET_AC_ABILITY'
         /\ (/\ step'.op = "data"
             /\ step'.sock > 1
             /\ step'.decoder = "decode_ac_ability"
             /\ ~step'.threw) =>
              /\ Len(step'.writes) = 2
              /\ step'.writes[1].request = "GET_AC_STATUS"
              /\ step'.writes[2].request = "GET_ZONE_STATUS"
         /\ (/\ step'.op = "data"
             /\ step'.decoder = "decode_zones_status"
             /\ got_zone_status) =>
              step'.writes = <<>>]_vars

\* a zone status batch was decoded on the socket of a reconnect, with the
\* flag already set, and nothing was written
W_C32 ==
  /\ step.op = "data"
  /\ step.sock > 1
  /\ step.decoder = "decode_zones_status"
  /\ ~step.threw
  /\ got_zone_status
  /\ step.writes = <<>>

CX_C34_RefreshFindsAcStatus ==
  (/\ step.op = "AddUpdateZoneStatus"
   /\ step.known
   /\ zones[step.input.zone_number].registered)
    => /\ acs[zones[step.input.zone_number].ac_number].ac_status # Undefined
       /\ ~step.threw

\* C35: a zone of a known unit that has received both a zone status and a
\* zone name, in either order, is registered.  A zone has received a name
\* when its name is no longer the default 'Zone n'.
CX_C35_RegisteredInEitherOrder ==
  \A n \in DOMAIN zones :
    (/\ zones[n].zone_status # Undefined
     /\ zones[n].zone_name # <<90, 111, 110, 101, 32, 48 + n>>)
      => zones[n].registered

\* C36: once a zone record exists, no later event changes its owner.
CX_C36_OwnerNeverChanges ==
  [][\A n \in DOMAIN zones :
       /\ n \in DOMAIN zones'
       /\ zones'[n].ac_number = zones[n].ac_number]_vars

\* C36, as the code has it: a zone record is never dropped, and its owner
\* changes only in the call that handles the first ability of a unit whose
\* declared range holds the zone, and then to that unit; statuses, names and
\* the abilities of known units leave every owner as it is.
C36_OwnerFollowsFirstAbilities ==
  [][\A n \in DOMAIN zones :
       /\ n \in DOMAIN zones'
       /\ zones'[n].ac_number # zones[n].ac_number =>
            /\ step'.op = "AddAcAbility"
            /\ ~step'.known
            /\ zones'[n].ac_number = step'.input.ac_unit_number
            /\ n >= step'.input.ac_start_zone
            /\ n < step'.input.ac_start_zone + step'.input.ac_zone_count]_vars

\* zone 1, created for unit 0 and holding a status, was taken over by
\* unit 1 when the first ability of unit 1 declared a range that holds it
W_C36 ==
  /\ step.op = "AddAcAbility"
  /\ ~step.known
  /\ step.input.ac_unit_number = 1
  /\ 0 \in DOMAIN acs
  /\ 1 \in DOMAIN zones
  /\ zones[1].zone_status # Undefined
  /\ zones[1].ac_number = 1

\* C37: whenever the current-state query of an accessory returns heating or
\* cooling, its active query on the same status returns active; for the
\* zone accessory and for the AC accessory, for every power-state code.
CX_C37_ActiveAgreesWithCurrentState ==
  /\ (/\ step.op = "handleCurrentHeatingCoolingStateGet"
      /\ step.result \in {"HEATING", "COOLING"})
       => handleActiveGet(step.input.zone_status) = "ACTIVE"
  /\ (/\ step.op = "handleCurrentHeaterCoolerStateGet"
      /\ step.result \in {"HEATING", "COOLING"})
       => handleAcActiveGet(step.input.ac_status) = "ACTIVE"

\* C38: the platform holds at most one wrapper per AirtouchId, and no
\* wrapper is dropped or given another id; a device record whose AirtouchId
\* is already held leaves airtouch_devices as it is: no wrapper is created
\* and no socket is opened.
C38_OneWrapperPerAirtouchId ==
  [][/\ \A j, k \in 1..Len(airtouch_devices') :
          airtouch_devices'[j].AirtouchId = airtouch_devices'[k].AirtouchId
            => j = k
     /\ \A k \in 1..Len(airtouch_devices) :
          /\ k <= Len(airtouch_devices')
          /\ airtouch_devices'[k].AirtouchId = airtouch_devices[k].AirtouchId
     /\ (/\ step'.op = "discovery"
         /\ step'.emitted = 1
         /\ \E k \in 1..Len(airtouch_devices) :
              airtouch_devices[k].AirtouchId
                = DiscoveryEvents(step'.input)[1].AirtouchId)
          => airtouch_devices' = airtouch_devices]_vars

\* the reply of controller X came in again after the wrappers of X and of Y
\* had been created, in this order: the platform still holds the two
W_C38 ==
  /\ step.op = "discovery"
  /\ step.emitted = 1
  /\ DiscoveryEvents(step.input)[1].AirtouchId = Some(<<88>>)
  /\ Len(airtouch_devices) = 2
  /\ airtouch_devices[1].AirtouchId = Some(<<88>>)
  /\ airtouch_devices[2].AirtouchId = Some(<<89>>)

====
